---- MODULE Spec2Model ----
(***************************************************************************)
(* LexPrep: placeholder extraction, manifest inference, form context       *)
(* building and case generation, modelled from utils.py / utils_b.py,      *)
(* app.py / app_b.py, renderer.py and db.py.                               *)
(*                                                                         *)
(* A Python str is a sequence of one-character strings.  A Python dict is  *)
(* a function whose DOMAIN is the dict's key set; a dict literal with a    *)
(* fixed set of keys is a record.                                          *)
(***************************************************************************)
EXTENDS Integers, Sequences, FiniteSets, TLC

VARIABLES
    pc,              \* which handler of the program ran last
    text,            \* the visible text of one paragraph or cell
    found,           \* utils.py   _FIELD_RE.findall(text)
    found_b,         \* utils_b.py _FIELD_RE.findall(text)
    doc,             \* the uploaded document: paragraphs and tables
    keys,            \* app.py tab1: keys = extract_placeholders(tmp_path)
    keys_b,          \* the same with utils_b.extract_placeholders
    manifest_fields, \* app.py tab1: manifest_fields
    schema,          \* the manifest's "fields" handed to collect_ctx
    parent,          \* the prefix handed to collect_ctx
    session_state,   \* st.session_state: widget key -> value
    ctx,             \* app.py   collect_ctx(schema, parent)
    ctx_b,           \* app_b.py collect_ctx(schema, parent)
    templates,       \* db.py: the rows of table templates, in insertion order
    cases,           \* db.py: the rows of table cases, in insertion order
    case_seq,        \* db.py: the AUTOINCREMENT sequence of table cases
    files,           \* the files of outputs/: path -> content
    last_gen,        \* st.session_state["last_gen"]
    generations,     \* how many times the generate handler has run
    failed,          \* the runs of the generate handler that raised
    HAVE_SOFFICE,    \* renderer.py:23: soffice was on PATH at import
    last_run,        \* what the last call of render_docx_rtf met and did
    written,         \* the paths render_docx_rtf has written, in order
    delete_pressed,  \* the templates whose Delete button has been pressed
    now,             \* the UTC wall clock, in whole seconds
    tpl_files,       \* the files of data/templates/: path -> bytes
    saved,           \* how many times Save Template has been pressed
    last_save        \* the last Save Template: its inputs and what it showed

vars == <<pc, text, found, found_b, doc, keys, keys_b, manifest_fields,
          schema, parent, session_state, ctx, ctx_b,
          templates, cases, case_seq, files, last_gen, generations, failed,
          HAVE_SOFFICE, last_run, written, delete_pressed, now,
          tpl_files, saved, last_save>>

scanVars   == <<text, found, found_b>>
uploadVars == <<doc, keys, keys_b, manifest_fields>>
formVars   == <<schema, parent, session_state, ctx, ctx_b>>
storeVars  == <<tpl_files, saved, last_save>>
appVars    == <<templates, cases, case_seq, files, last_gen, generations, failed,
               HAVE_SOFFICE, last_run, written, delete_pressed, now,
               tpl_files, saved, last_save>>

(***************************************************************************)
(* Characters and strings                                                  *)
(***************************************************************************)

LowerLetters == <<"a", "b", "c", "d", "e", "f", "g", "h", "i", "j", "k", "l", "m",
                  "n", "o", "p", "q", "r", "s", "t", "u", "v", "w", "x", "y", "z">>
UpperLetters == <<"A", "B", "C", "D", "E", "F", "G", "H", "I", "J", "K", "L", "M",
                  "N", "O", "P", "Q", "R", "S", "T", "U", "V", "W", "X", "Y", "Z">>
DigitChars   == <<"0", "1", "2", "3", "4", "5", "6", "7", "8", "9">>

Range(s) == {s[i] : i \in DOMAIN s}
IndexOf(s, c) == CHOOSE i \in DOMAIN s : s[i] = c

Letters    == Range(LowerLetters) \cup Range(UpperLetters)
Digits     == Range(DigitChars)
Whitespace == {" ", "\t", "\n"}                       \* the regex class \s
Alphabet   == Letters \cup Digits \cup Whitespace
              \cup {"!", "(", ")", "-", ".", ":", "[", "]", "_", "{", "}"}

\* str ordering is by code point: the code points of the characters used.
Ord(c) ==
    IF c \in Range(LowerLetters) THEN 96 + IndexOf(LowerLetters, c)
    ELSE IF c \in Range(UpperLetters) THEN 64 + IndexOf(UpperLetters, c)
    ELSE IF c \in Digits THEN 47 + IndexOf(DigitChars, c)
    ELSE CASE c = "\t" -> 9  [] c = "\n" -> 10 [] c = " " -> 32 [] c = "!" -> 33
           [] c = "(" -> 40  [] c = ")" -> 41  [] c = "-" -> 45 [] c = "." -> 46
           [] c = ":" -> 58  [] c = "[" -> 91  [] c = "]" -> 93 [] c = "_" -> 95
           [] c = "{" -> 123 [] c = "}" -> 125

\* s < t for Python str: the first differing character decides, a proper
\* prefix is smaller.
StrLess(s, t) ==
    \E n \in 0..Len(s) :
        /\ n <= Len(t)
        /\ \A i \in 1..n : s[i] = t[i]
        /\ \/ n = Len(s) /\ n < Len(t)
           \/ n < Len(s) /\ n < Len(t) /\ Ord(s[n + 1]) < Ord(t[n + 1])

\* sorted(S) of a set of str: the smallest first.
RECURSIVE sorted(_)
sorted(S) ==
    IF S = {} THEN <<>>
    ELSE LET m == CHOOSE x \in S : \A y \in S \ {x} : StrLess(x, y)
         IN  <<m>> \o sorted(S \ {m})

(***************************************************************************)
(* utils.py / utils_b.py: the placeholder scanner                          *)
(***************************************************************************)

\* utils.py:46     [^{}\s]     utils_b.py:87   [a-zA-Z0-9_.\[\]]
FieldClass   == Alphabet \ ({"{", "}"} \cup Whitespace)
FieldClass_b == Letters \cup Digits \cup {"_", ".", "[", "]"}

\* A greedy run  cls*  from position p: the first position not in cls.
RECURSIVE SkipClass(_, _, _)
SkipClass(t, p, cls) ==
    IF p <= Len(t) /\ t[p] \in cls THEN SkipClass(t, p + 1, cls) ELSE p

\* One attempt of  \{\{\s*(cls+)\s*\}\}  at position p.  The three runs are
\* over disjoint classes followed by a character outside them, so the greedy
\* run is the only way to match and the engine never backtracks into it.
MatchAt(t, p, cls) ==
    LET a == SkipClass(t, p + 2, Whitespace)
        b == SkipClass(t, a, cls)
        c == SkipClass(t, b, Whitespace)
    IN  IF /\ p + 1 <= Len(t) /\ t[p] = "{" /\ t[p + 1] = "{"
           /\ b > a
           /\ c + 1 <= Len(t) /\ t[c] = "}" /\ t[c + 1] = "}"
        THEN [ok |-> TRUE, group |-> SubSeq(t, a, b - 1), end |-> c + 2]
        ELSE [ok |-> FALSE, group |-> <<>>, end |-> p + 1]

\* re.findall: leftmost matches, left to right, not overlapping; the list of
\* the captures of group 1.
RECURSIVE ReFindall(_, _, _)
ReFindall(t, p, cls) ==
    IF p > Len(t) THEN <<>>
    ELSE LET m == MatchAt(t, p, cls)
         IN  IF m.ok THEN <<m.group>> \o ReFindall(t, m.end, cls)
             ELSE ReFindall(t, p + 1, cls)

FIELD_RE_findall(t)   == ReFindall(t, 1, FieldClass)
FIELD_RE_b_findall(t) == ReFindall(t, 1, FieldClass_b)

\* Every cell text of document.tables: for table, for row, for cell.
CellTexts(d) ==
    UNION {UNION {Range(d.tables[i][j]) : j \in DOMAIN d.tables[i]} :
             i \in DOMAIN d.tables}

ParagraphTexts(d) == {d.paragraphs[i] : i \in DOMAIN d.paragraphs}

\* utils.py:48-68.  _collect skips an empty text; keys is a set; the result
\* is sorted(keys).
extract_placeholders_paragraphs_only(d) ==
    sorted(UNION {Range(FIELD_RE_findall(t)) : t \in ParagraphTexts(d) \ {<<>>}})

extract_placeholders(d) ==
    sorted(UNION {Range(FIELD_RE_findall(t)) :
                     t \in (ParagraphTexts(d) \cup CellTexts(d)) \ {<<>>}})

\* utils_b.py:90-127: the same loops over the stricter expression.
extract_placeholders_b(d) ==
    sorted(UNION {Range(FIELD_RE_b_findall(t)) :
                     t \in (ParagraphTexts(d) \cup CellTexts(d)) \ {<<>>}})

(***************************************************************************)
(* str methods used by the manifest inference                              *)
(***************************************************************************)

StartsAt(s, sep, n) ==
    /\ n >= 1
    /\ n + Len(sep) - 1 <= Len(s)
    /\ SubSeq(s, n, n + Len(sep) - 1) = sep

\* s.find(sep) from position n on, 1-based; 0 when sep does not occur.
RECURSIVE FindFrom(_, _, _)
FindFrom(s, sep, n) ==
    IF n + Len(sep) - 1 > Len(s) THEN 0
    ELSE IF StartsAt(s, sep, n) THEN n
    ELSE FindFrom(s, sep, n + 1)

\* s.rfind(sep): the last occurrence.
RECURSIVE RFindFrom(_, _, _)
RFindFrom(s, sep, n) ==
    IF n < 1 THEN 0
    ELSE IF StartsAt(s, sep, n) THEN n
    ELSE RFindFrom(s, sep, n - 1)

\* sep in s
Contains(s, sep) == FindFrom(s, sep, 1) # 0

SplitAt(s, sep, n) ==
    <<SubSeq(s, 1, n - 1), SubSeq(s, n + Len(sep), Len(s))>>

\* s.rsplit(sep, 1)
rsplit1(s, sep) == SplitAt(s, sep, RFindFrom(s, sep, Len(s)))

\* s.split(sep, 1) for an s that contains sep: the parts around the first
\* occurrence.
split1(s, sep) == SplitAt(s, sep, FindFrom(s, sep, 1))

\* s.replace(old, new): every occurrence, left to right, not overlapping.
RECURSIVE replace(_, _, _)
replace(s, old, new) ==
    LET n == FindFrom(s, old, 1)
    IN  IF n = 0 THEN s
        ELSE SubSeq(s, 1, n - 1) \o new
             \o replace(SubSeq(s, n + Len(old), Len(s)), old, new)

upper(c) == IF c \in Range(LowerLetters)
            THEN UpperLetters[IndexOf(LowerLetters, c)] ELSE c
lower(c) == IF c \in Range(UpperLetters)
            THEN LowerLetters[IndexOf(UpperLetters, c)] ELSE c

\* s.title(): a letter that follows a letter is lowered, any other letter is
\* raised, the rest is kept.
title(s) ==
    [i \in DOMAIN s |->
        IF i > 1 /\ s[i - 1] \in Letters THEN lower(s[i]) ELSE upper(s[i])]

\* app.py:196-203 _make_label, app_b.py:189-195 prettify
make_label(raw) ==
    title(replace(replace(replace(raw, <<"[", "]">>, <<>>),
                          <<".">>, <<" ">>), <<"_">>, <<" ">>))

(***************************************************************************)
(* app.py:369-388, app_b.py:198-221: the draft manifest of an upload       *)
(***************************************************************************)

GroupMark == <<"[", "]", ".">>                          \* "[]."

TextField(k) == [key |-> k, label |-> make_label(k), type |-> "text"]

SplitTokenLast(k) == rsplit1(k, GroupMark)

\* root, sub = k.split("[].", 1)
SplitToken(k) == split1(k, GroupMark)

\* repeats.setdefault(root, []).append(sub): repeats is a dict, which keeps
\* the order in which its keys were first set: a sequence of
\* [root, subs] entries, one per root.
SetdefaultAppend(repeats, root, sub) ==
    IF \E i \in DOMAIN repeats : repeats[i].root = root
    THEN [i \in DOMAIN repeats |->
            IF repeats[i].root = root
            THEN [repeats[i] EXCEPT !.subs = Append(@, sub)]
            ELSE repeats[i]]
    ELSE Append(repeats, [root |-> root, subs |-> <<sub>>])

\* for k in keys: ... (app.py:372-377), from the i-th key on.
RECURSIVE ClassifyFrom(_, _, _)
ClassifyFrom(ks, i, acc) ==
    IF i > Len(ks) THEN acc
    ELSE LET k == ks[i]
         IN  IF Contains(k, GroupMark)
             THEN LET rs == SplitToken(k)
                  IN  ClassifyFrom(ks, i + 1,
                        [acc EXCEPT !.repeats =
                            SetdefaultAppend(@, rs[1], rs[2])])
             ELSE ClassifyFrom(ks, i + 1,
                        [acc EXCEPT !.simple = Append(@, TextField(k))])

Classify(ks) == ClassifyFrom(ks, 1, [simple |-> <<>>, repeats |-> <<>>])

\* A repeat field that is given the label of its root.
RepeatFieldLabelled(entry) ==
    [key |-> entry.root, label |-> make_label(entry.root), type |-> "repeat",
     fields |-> [j \in DOMAIN entry.subs |-> TextField(entry.subs[j])]]

\* app.py:381-388: one repeat field per entry of repeats; it has no label.
RepeatField(entry) ==
    [key |-> entry.root, type |-> "repeat",
     fields |-> [j \in DOMAIN entry.subs |-> TextField(entry.subs[j])]]

\* manifest_fields = simple.copy(); then one append per root (app.py:379-388)
AssembleRepeatsFirst(c) ==
    [i \in DOMAIN c.repeats |-> RepeatField(c.repeats[i])] \o c.simple

Assemble(c) ==
    c.simple \o [i \in DOMAIN c.repeats |-> RepeatField(c.repeats[i])]

InferManifestFields(ks) == Assemble(Classify(ks))

(***************************************************************************)
(* app.py:232-265, app_b.py:134-151: the context builder                   *)
(***************************************************************************)

\* Python values: None, a str, an int, a list.  A dict is a function.
PyNone    == [t |-> "None"]
PyStr(s)  == [t |-> "str", v |-> s]
PyInt(n)  == [t |-> "int", v |-> n]
PyList(l) == [t |-> "list", v |-> l]

EmptyDict == <<>>
\* d[k] = v
DictSet(d, k, v) == [x \in DOMAIN d \cup {k} |-> IF x = k THEN v ELSE d[x]]
\* d.get(k, default)
DictGet(d, k, default) == IF k \in DOMAIN d THEN d[k] ELSE default

\* str(i) of an int i >= 0: its decimal digits.
RECURSIVE str(_)
str(i) ==
    IF i < 10 THEN <<DigitChars[i + 1]>>
    ELSE str(i \div 10) \o <<DigitChars[(i % 10) + 1]>>

\* app.py:211,246   path = f"{parent}.{key}"
FieldPath(par, key) == par \o <<".">> \o key

\* app_b.py:114,139 path = f"{parent}.{key}" if parent else key
FieldPath_b(par, key) == IF par # <<>> THEN par \o <<".">> \o key ELSE key

\* The path a variant computes for a field: "a" is app.py, "b" is app_b.py.
PathOf(variant, par, key) ==
    IF variant = "a" THEN FieldPath(par, key) ELSE FieldPath_b(par, key)

\* f"{path}[{i}]"
RepPath(path, i) == path \o <<"[">> \o str(i) \o <<"]">>

\* wkey = f"w::{path}"
WKey(path) == <<"w", ":", ":">> \o path

\* f"{wkey}::__count"
CountKey(wkey) == wkey \o <<":", ":", "_", "_", "c", "o", "u", "n", "t">>

RepeatCountDefault0(wkey) ==
    DictGet(session_state, CountKey(wkey), PyInt(0)).v

\* int(st.session_state.get(f"{wkey}::__count", 1))
RepeatCount(wkey) ==
    DictGet(session_state, CountKey(wkey), PyInt(1)).v

\* range(cnt): 0 .. cnt-1, empty for cnt <= 0
range(cnt) == [i \in 1..cnt |-> i - 1]

\* app.py:232-265, the loop from the n-th field on with the dict built so far.
RECURSIVE collect_ctx_from(_, _, _, _)
collect_ctx_from(fields, par, n, acc) ==
    IF n > Len(fields) THEN acc
    ELSE LET field == fields[n]
             key   == field.key
             ftype == field.type
             path  == FieldPath(par, key)
             wkey  == WKey(path)
             value ==
               IF ftype \in {"text", "textarea", "number", "date", "currency"}
               THEN DictGet(session_state, wkey, PyNone)
               ELSE IF ftype = "repeat"
               THEN LET cnt == RepeatCount(wkey)
                    IN  PyList([j \in DOMAIN range(cnt) |->
                            collect_ctx_from(field.fields,
                                RepPath(path, range(cnt)[j]), 1, EmptyDict)])
               ELSE DictGet(session_state, wkey, PyNone)
         IN  collect_ctx_from(fields, par, n + 1, DictSet(acc, key, value))

collect_ctx(fields, par) == collect_ctx_from(fields, par, 1, EmptyDict)

\* app_b.py:134-151: only text, textarea and repeat fields are collected.
RECURSIVE collect_ctx_b_from(_, _, _, _)
collect_ctx_b_from(fields, par, n, acc) ==
    IF n > Len(fields) THEN acc
    ELSE LET f     == fields[n]
             key   == f.key
             ftype == f.type
             path  == FieldPath_b(par, key)
             wkey  == WKey(path)
         IN  IF ftype \in {"text", "textarea"}
             THEN collect_ctx_b_from(fields, par, n + 1,
                    DictSet(acc, key, DictGet(session_state, wkey, PyStr(""))))
             ELSE IF ftype = "repeat"
             THEN LET count == RepeatCount(wkey)
                  IN  collect_ctx_b_from(fields, par, n + 1,
                        DictSet(acc, key,
                          PyList([j \in DOMAIN range(count) |->
                            collect_ctx_b_from(f.fields,
                                RepPath(path, range(count)[j]), 1, EmptyDict)])))
             ELSE collect_ctx_b_from(fields, par, n + 1, acc)

collect_ctx_b(fields, par) == collect_ctx_b_from(fields, par, 1, EmptyDict)

(***************************************************************************)
(* app.py:193, db.py, renderer.py: generated documents                     *)
(***************************************************************************)

IsAlnum(c) == c \in Letters \cup Digits

\* re.sub(r"[^A-Za-z0-9]+", "-", text): one "-" for each run of other
\* characters, from position i on.
RECURSIVE ReSubNonAlnum(_, _)
ReSubNonAlnum(s, i) ==
    IF i > Len(s) THEN <<>>
    ELSE IF IsAlnum(s[i]) THEN <<s[i]>> \o ReSubNonAlnum(s, i + 1)
    ELSE IF i > 1 /\ ~IsAlnum(s[i - 1]) THEN ReSubNonAlnum(s, i + 1)
    ELSE <<"-">> \o ReSubNonAlnum(s, i + 1)

\* s.strip(c)
RECURSIVE strip(_, _)
strip(s, c) ==
    IF s = <<>> THEN s
    ELSE IF Head(s) = c THEN strip(Tail(s), c)
    ELSE IF s[Len(s)] = c THEN strip(SubSeq(s, 1, Len(s) - 1), c)
    ELSE s

\* s.lower()
str_lower(s) == [i \in DOMAIN s |-> lower(s[i])]

\* app.py:191-193
_slug(s) == str_lower(strip(ReSubNonAlnum(s, 1), "-"))

\* str(uuid.uuid4()) of the n-th run: a name no other run draws and no slug
\* spells.
uuid4(n) == <<"u", "u", "i", "d", "#">> \o str(n)

\* Output paths whose stem depends on the kind of document.
OutputPathPerKind(stem, ext) ==
    <<"o", "u", "t", "p", "u", "t", "s", "/">> \o stem \o ext \o <<".">> \o ext

\* renderer.py:20,67-68   OUTPUT_DIR / f"{stem}.docx", OUTPUT_DIR / f"{stem}.rtf"
OutputPath(stem, ext) ==
    <<"o", "u", "t", "p", "u", "t", "s", "/">> \o stem \o <<".">> \o ext

DocxExt == <<"d", "o", "c", "x">>
RtfExt  == <<"r", "t", "f">>

\* Path(p).unlink(missing_ok=True)
Unlink(fs, path) == [q \in DOMAIN fs \ {path} |-> fs[q]]

\* renderer.py:80: visible text below this many characters is rejected.
MinPlainText == 100

\* _plain_text_len(rtf_out) is called at renderer.py:80 and defined in none of
\* the source files: it is taken to be the length of the extractable plain
\* text of the converted document, which the file's content carries here.
_plain_text_len(fs, rtf_out) == fs[rtf_out].text_len

\* renderer.py:84-93, the except clause: its first statement reads the name
\* logging, which no import of renderer.py (lines 11-18) binds, so the clause
\* raises NameError before it reaches the LibreOffice branch.
PandocPathFailed(fs, docx_out, rtf_out, engines, wrote) ==
    [files |-> fs, raised |-> "NameError", engines |-> engines, wrote |-> wrote,
     docx_path |-> docx_out, rtf_path |-> rtf_out]

\* render_docx_rtf with the engines in the other order: soffice first when it
\* is there, Pandoc otherwise.
render_docx_rtf_office_first(fs, base_name, n, rendering, pandoc, text_len) ==
    LET stem      == IF base_name # <<>> THEN base_name ELSE uuid4(n)
        docx_out  == OutputPath(stem, DocxExt)
        rtf_out   == OutputPath(stem, RtfExt)
        filled    == DictSet(fs, docx_out,
                       [gen |-> n, text_len |-> text_len, engine |-> "docxtpl"])
        by(e)     == DictSet(filled, rtf_out,
                       [gen |-> n, text_len |-> text_len, engine |-> e])
    IN  IF rendering # "ok"
        THEN [files |-> fs, raised |-> "RenderError", engines |-> <<>>,
              wrote |-> <<>>,
              docx_path |-> docx_out, rtf_path |-> rtf_out]
        ELSE IF HAVE_SOFFICE
        THEN [files |-> by("soffice"), raised |-> "none",
              engines |-> <<"soffice">>, wrote |-> <<docx_out, rtf_out>>,
              docx_path |-> docx_out, rtf_path |-> rtf_out]
        ELSE IF pandoc = "ok" /\ text_len >= MinPlainText
        THEN [files |-> by("pandoc"), raised |-> "none",
              engines |-> <<"pandoc">>, wrote |-> <<docx_out, rtf_out>>,
              docx_path |-> docx_out, rtf_path |-> rtf_out]
        ELSE PandocPathFailed(filled, docx_out, rtf_out,
                              IF pandoc = "missing" THEN <<>> ELSE <<"pandoc">>,
                              <<docx_out>>)

\* render_docx_rtf without the check of the converted text.
render_docx_rtf_unchecked(fs, base_name, n, rendering, pandoc, text_len) ==
    LET stem      == IF base_name # <<>> THEN base_name ELSE uuid4(n)
        docx_out  == OutputPath(stem, DocxExt)
        rtf_out   == OutputPath(stem, RtfExt)
        filled    == DictSet(fs, docx_out,
                       [gen |-> n, text_len |-> text_len, engine |-> "docxtpl"])
        converted == DictSet(filled, rtf_out,
                       [gen |-> n, text_len |-> text_len, engine |-> "pandoc"])
    IN  IF rendering # "ok"
        THEN [files |-> fs, raised |-> "RenderError", engines |-> <<>>,
              wrote |-> <<>>,
              docx_path |-> docx_out, rtf_path |-> rtf_out]
        ELSE IF pandoc = "missing"
        THEN PandocPathFailed(filled, docx_out, rtf_out, <<>>, <<docx_out>>)
        ELSE IF pandoc = "error"
        THEN PandocPathFailed(filled, docx_out, rtf_out, <<"pandoc">>,
                              <<docx_out>>)
        ELSE [files |-> converted, raised |-> "none", engines |-> <<"pandoc">>,
              wrote |-> <<docx_out, rtf_out>>,
              docx_path |-> docx_out, rtf_path |-> rtf_out]

\* renderer.py:61-95 for the n-th run.  rendering, pandoc and text_len are
\* what docxtpl, Pandoc and the converted text turn out to be:
\*   rendering "error": DocxTemplate(...)/render/save raises, nothing written
\*   pandoc "missing": shutil.which finds none; "error": convert_file raises
\* A file's content names the run and the engine that wrote it; engines lists
\* the converters the call invoked and wrote the paths it wrote, in order.
render_docx_rtf(fs, base_name, n, rendering, pandoc, text_len) ==
    LET stem      == IF base_name # <<>> THEN base_name ELSE uuid4(n)
        docx_out  == OutputPath(stem, DocxExt)
        rtf_out   == OutputPath(stem, RtfExt)
        filled    == DictSet(fs, docx_out,
                       [gen |-> n, text_len |-> text_len, engine |-> "docxtpl"])
        converted == DictSet(filled, rtf_out,
                       [gen |-> n, text_len |-> text_len, engine |-> "pandoc"])
    IN  IF rendering # "ok"
        THEN [files |-> fs, raised |-> "RenderError", engines |-> <<>>,
              wrote |-> <<>>,
              docx_path |-> docx_out, rtf_path |-> rtf_out]
        ELSE IF pandoc = "missing"
        THEN PandocPathFailed(filled, docx_out, rtf_out, <<>>, <<docx_out>>)
        ELSE IF pandoc = "error"
        THEN PandocPathFailed(filled, docx_out, rtf_out, <<"pandoc">>,
                              <<docx_out>>)
        ELSE IF _plain_text_len(converted, rtf_out) < MinPlainText
        THEN PandocPathFailed(Unlink(converted, rtf_out), docx_out, rtf_out,
                              <<"pandoc">>, <<docx_out, rtf_out>>)
        ELSE [files |-> converted, raised |-> "none", engines |-> <<"pandoc">>,
              wrote |-> <<docx_out, rtf_out>>,
              docx_path |-> docx_out, rtf_path |-> rtf_out]

\* What a call of render_docx_rtf met (rendering, pandoc) and what came of it.
RunRecord(n, rendering, pandoc, text_len, r) ==
    [n |-> n, rendering |-> rendering, pandoc |-> pandoc, text_len |-> text_len,
     raised |-> r.raised, engines |-> r.engines,
     docx_path |-> r.docx_path, rtf_path |-> r.rtf_path]

NoRun == [n |-> 0, rendering |-> "ok", pandoc |-> "ok", text_len |-> 0,
          raised |-> "none",
          engines |-> <<>>, docx_path |-> <<>>, rtf_path |-> <<>>]

\* db.py:141-149 list_templates(): the active rows.
list_templates == SelectSeq(templates, LAMBDA t : t.is_active)

\* db.py:193-197, the rows list_cases() selects: each case joined with its
\* template's name.  The generate handler and the documents table use which
\* rows there are; they are kept in insertion order here.
JoinedCases ==
    LET joined == SelectSeq(cases,
                    LAMBDA c : \E i \in DOMAIN templates :
                                  templates[i].id = c.template_id)
    IN  [i \in DOMAIN joined |->
            [id |-> joined[i].id, template_id |-> joined[i].template_id,
             docx_path |-> joined[i].docx_path, rtf_path |-> joined[i].rtf_path,
             doc_name |-> joined[i].doc_name,
             created_at |-> joined[i].created_at,
             template_name |->
               (CHOOSE t \in Range(templates) : t.id = joined[i].template_id).name]]

\* The rearrangements of a sequence.
Orderings(seq) ==
    {[i \in DOMAIN seq |-> seq[f[i]]] :
        f \in {g \in [DOMAIN seq -> DOMAIN seq] :
                  \A a, b \in DOMAIN seq : g[a] = g[b] => a = b}}

\* db.py:190-200 list_cases(): the joined rows, ORDER BY c.created_at DESC.
\* SQL leaves the order of rows with equal created_at open, so each order
\* of the joined rows that descends in created_at is a possible result.
list_cases ==
    {r \in Orderings(JoinedCases) :
        \A i, j \in DOMAIN r : i < j => r[i].created_at >= r[j].created_at}

\* db.py:157-186 insert_case: the new row; the id is the next of the sequence
\* and created_at is the UTC time of the insertion, cut to whole seconds
\* (isoformat(timespec="seconds"), line 165).
CaseRow(id, template_id, docx_path, rtf_path, doc_name, now_utc) ==
    [id |-> id, template_id |-> template_id, docx_path |-> docx_path,
     rtf_path |-> rtf_path, doc_name |-> doc_name, created_at |-> now_utc]

\* app.py:112-173 _load_builtin_templates on a fresh database.
BuiltinNames ==
    << <<"N", "D", "A", " ", "(", "M", "u", "t", "u", "a", "l", ")">>,
       <<"R", "e", "s", "i", "d", "e", "n", "t", "i", "a", "l", " ",
         "L", "e", "a", "s", "e">>,
       <<"G", "e", "n", "e", "r", "a", "l", " ", "P", "o", "w", "e", "r", " ",
         "o", "f", " ", "A", "t", "t", "o", "r", "n", "e", "y">> >>

\* app.py:116,120,133,150,169: tpl_dir / t["file"], the built-in documents.
BuiltinPaths ==
    << <<"d", "e", "f", "a", "u", "l", "t", "_", "t", "e", "m", "p", "l", "a", "t",
         "e", "s", "/", "n", "d", "a">>,
       <<"d", "e", "f", "a", "u", "l", "t", "_", "t", "e", "m", "p", "l", "a", "t",
         "e", "s", "/", "l", "e", "a", "s", "e">>,
       <<"d", "e", "f", "a", "u", "l", "t", "_", "t", "e", "m", "p", "l", "a", "t",
         "e", "s", "/", "p", "o", "a">> >>

\* db.py:114-136 insert_template: the row; is_active defaults to 1.  The id
\* is the next of the AUTOINCREMENT sequence; no template row is ever removed,
\* so that is the number of rows plus one.
TemplateRow(id, name, docx_path) ==
    [id |-> id, name |-> name, docx_path |-> docx_path, is_active |-> TRUE]

\* app.py:112-173 _load_builtin_templates on table ts: nothing when
\* list_templates() returns a row, else one insert_template per built-in.
_load_builtin_templates(ts) ==
    IF SelectSeq(ts, LAMBDA t : t.is_active) # <<>>
    THEN ts
    ELSE ts \o [i \in DOMAIN BuiltinNames |->
                  TemplateRow(Len(ts) + i, BuiltinNames[i], BuiltinPaths[i])]

SeededTemplates == _load_builtin_templates(<<>>)

(***************************************************************************)
(* json.loads on the manifest text (app.py:408, app_b.py:243)              *)
(***************************************************************************)

PyDict(d) == [t |-> "dict", v |-> d]

Quote == "\""

JsonFail == [ok |-> FALSE]
JsonOk(v, next) == [ok |-> TRUE, v |-> v, next |-> next]

\* JSON whitespace between tokens.
RECURSIVE SkipWs(_, _)
SkipWs(s, i) ==
    IF i <= Len(s) /\ s[i] \in Whitespace THEN SkipWs(s, i + 1) ELSE i

\* The end of the run of digits that starts at i.
RECURSIVE DigitsEnd(_, _)
DigitsEnd(s, i) ==
    IF i <= Len(s) /\ s[i] \in Digits THEN DigitsEnd(s, i + 1) ELSE i

\* int(digits)
RECURSIVE IntOf(_)
IntOf(ds) ==
    IF ds = <<>> THEN 0
    ELSE 10 * IntOf(SubSeq(ds, 1, Len(ds) - 1))
         + (IndexOf(DigitChars, ds[Len(ds)]) - 1)

\* A number: digits, with no leading zero before another digit.
ParseInt(s, i) ==
    LET e == DigitsEnd(s, i)
    IN  IF e = i \/ (s[i] = "0" /\ e > i + 1) THEN JsonFail
        ELSE JsonOk(PyInt(IntOf(SubSeq(s, i, e - 1))), e)

\* A string: from the quote at i to the next quote (the texts have no
\* backslash).
ParseString(s, i) ==
    LET e == FindFrom(s, <<Quote>>, i + 1)
    IN  IF e = 0 THEN JsonFail
        ELSE JsonOk(PyStr(SubSeq(s, i + 1, e - 1)), e + 1)

Null == <<"n", "u", "l", "l">>

RECURSIVE ParseValue(_, _)
RECURSIVE ParseElements(_, _, _)
RECURSIVE ParseMembers(_, _, _)

\* One JSON value from position i on: null, a number, a string, an array or
\* an object.
ParseValue(s, i) ==
    LET j == SkipWs(s, i)
    IN  IF j > Len(s) THEN JsonFail
        ELSE IF s[j] = Quote THEN ParseString(s, j)
        ELSE IF s[j] \in Digits THEN ParseInt(s, j)
        ELSE IF StartsAt(s, Null, j) THEN JsonOk(PyNone, j + Len(Null))
        ELSE IF s[j] = "["
        THEN LET k == SkipWs(s, j + 1)
             IN  IF k <= Len(s) /\ s[k] = "]" THEN JsonOk(PyList(<<>>), k + 1)
                 ELSE ParseElements(s, j + 1, <<>>)
        ELSE IF s[j] = "{"
        THEN LET k == SkipWs(s, j + 1)
             IN  IF k <= Len(s) /\ s[k] = "}" THEN JsonOk(PyDict(EmptyDict), k + 1)
                 ELSE ParseMembers(s, j + 1, EmptyDict)
        ELSE JsonFail

\* The elements of an array after "[" or ",".
ParseElements(s, i, acc) ==
    LET r == ParseValue(s, i)
    IN  IF ~r.ok THEN JsonFail
        ELSE LET k == SkipWs(s, r.next)
             IN  IF k > Len(s) THEN JsonFail
                 ELSE IF s[k] = "," THEN ParseElements(s, k + 1, Append(acc, r.v))
                 ELSE IF s[k] = "]" THEN JsonOk(PyList(Append(acc, r.v)), k + 1)
                 ELSE JsonFail

\* The members of an object after "{" or ","; a repeated name keeps the last
\* value, as a Python dict does.
ParseMembers(s, i, acc) ==
    LET j == SkipWs(s, i)
    IN  IF j > Len(s) \/ s[j] # Quote THEN JsonFail
        ELSE LET name == ParseString(s, j)
             IN  IF ~name.ok THEN JsonFail
                 ELSE LET c == SkipWs(s, name.next)
                      IN  IF c > Len(s) \/ s[c] # ":" THEN JsonFail
                          ELSE LET r == ParseValue(s, c + 1)
                               IN  IF ~r.ok THEN JsonFail
                                   ELSE LET k   == SkipWs(s, r.next)
                                            d   == DictSet(acc, name.v.v, r.v)
                                        IN  IF k > Len(s) THEN JsonFail
                                            ELSE IF s[k] = ","
                                            THEN ParseMembers(s, k + 1, d)
                                            ELSE IF s[k] = "}"
                                            THEN JsonOk(PyDict(d), k + 1)
                                            ELSE JsonFail

\* json.loads(s): the value of the whole text, or JSONDecodeError.
json_loads(s) ==
    LET r == ParseValue(s, 1)
    IN  IF r.ok /\ SkipWs(s, r.next) > Len(s)
        THEN [raised |-> "none", v |-> r.v]
        ELSE [raised |-> "JSONDecodeError"]

FieldsKey == <<"f", "i", "e", "l", "d", "s">>

\* The check without isinstance: any "fields" entry passes.
ParseManifestAnyFields(manifest_text) ==
    LET r == json_loads(manifest_text)
    IN  IF r.raised # "none" THEN r
        ELSE IF r.v.t # "dict" THEN [raised |-> "AttributeError"]
        ELSE IF FieldsKey \notin DOMAIN r.v.v THEN [raised |-> "AssertionError"]
        ELSE r

\* app.py:407-411, app_b.py:242-246:
\*   manifest = json.loads(manifest_text)
\*   assert isinstance(manifest.get("fields"), list)
\* under "except Exception".  A value that is no dict has no get
\* (AttributeError); a dict without "fields" gives None.
ParseManifest(manifest_text) ==
    LET r == json_loads(manifest_text)
    IN  IF r.raised # "none" THEN r
        ELSE IF r.v.t # "dict" THEN [raised |-> "AttributeError"]
        ELSE IF FieldsKey \notin DOMAIN r.v.v \/ r.v.v[FieldsKey].t # "list"
        THEN [raised |-> "AssertionError"]
        ELSE r

(***************************************************************************)
(* Bounded inputs                                                          *)
(***************************************************************************)

MaxTextLen == 7

\* The characters the scanned texts are made of.
ScanChars == {"{", "}", " ", "a", "-"}

RECURSIVE StrsUpTo(_, _)
StrsUpTo(chars, n) ==
    IF n = 0 THEN {<<>>}
    ELSE LET shorter == StrsUpTo(chars, n - 1)
         IN  shorter \cup {Append(s, c) : s \in {x \in shorter : Len(x) = n - 1},
                                          c \in chars}

\* The texts the uploaded documents are made of.
LB == <<"{", "{">>
RB == <<"}", "}">>
Ph(tok) == LB \o tok \o RB                              \* {{tok}}
PhSp(tok) == LB \o <<" ">> \o tok \o <<" ">> \o RB      \* {{ tok }}

DocTexts ==
    { Ph(<<"a">>),                                       \* {{a}}
      PhSp(<<"b">>),                                     \* {{ b }}
      Ph(<<"a", "[", "]", ".", "b">>),                   \* {{a[].b}}
      Ph(<<"a", "[", "]", ".", "c">>) \o <<" ">>
        \o Ph(<<"b", "[", "]", ".", "a">>) \o <<" ">>
        \o Ph(<<"a", "[", "]", ".", "a">>),              \* {{a[].c}} {{b[].a}} {{a[].a}}
      Ph(<<"a", "[", "]", ".", "b", "[", "]", ".", "c">>),  \* {{a[].b[].c}}
      Ph(<<"a", "[", "]">>) \o <<" ", "{", "a", "}">>,   \* {{a[]}} {a}
      Ph(<<"a", "0", "[", "]", ".", "b">>) \o <<" ">>
        \o Ph(<<"a", "-", "b">>),                        \* {{a0[].b}} {{a-b}}
      Ph(<<"a", "_", "b">>) \o Ph(<<"a">>),              \* {{a_b}}{{a}}
      <<>> }                                             \* an empty paragraph

MaxUnits == 2      \* paragraphs plus table cells of a document

RECURSIVE SeqsOfLen(_, _)
SeqsOfLen(S, n) ==
    IF n = 0 THEN {<<>>}
    ELSE {Append(s, x) : s \in SeqsOfLen(S, n - 1), x \in S}

\* The cells laid out as one row, as one column, or as one table each.
Tables(cells, layout) ==
    IF cells = <<>> THEN <<>>
    ELSE CASE layout = "row"    -> << <<cells>> >>
           [] layout = "column" -> << [j \in DOMAIN cells |-> <<cells[j]>>] >>
           [] layout = "tables" -> [i \in DOMAIN cells |-> << <<cells[i]>> >>]

Docs ==
    {[paragraphs |-> SubSeq(s, 1, k),
      tables |-> Tables(SubSeq(s, k + 1, Len(s)), layout)] :
        <<s, k, layout>> \in
            {x \in (UNION {SeqsOfLen(DocTexts, n) : n \in 0..MaxUnits})
                   \X (0..MaxUnits) \X {"row", "column", "tables"} :
                x[2] <= Len(x[1])}}

\* The manifests handed to the context builder: field lists of at most
\* MaxNodes fields in all, a repeat field holding scalar children.
MaxNodes == 2
MaxCount == 2      \* the largest stored repetition count

FormKeys  == {<<"a">>, <<"b">>}
FormScalarTypes == {"text", "date", "signature"}
Parents   == {<<>>, <<"p">>}

ScalarFields == {[key |-> k, type |-> ty] : k \in FormKeys, ty \in FormScalarTypes}

RECURSIVE ScalarListsOfLen(_)
ScalarListsOfLen(n) ==
    IF n = 0 THEN {<<>>}
    ELSE {<<f>> \o r : f \in ScalarFields, r \in ScalarListsOfLen(n - 1)}

\* The fields of exactly n nodes.
FieldsOfSize(n) ==
    (IF n = 1 THEN ScalarFields ELSE {})
    \cup {[key |-> k, type |-> "repeat", fields |-> ch] :
            k \in FormKeys, ch \in ScalarListsOfLen(n - 1)}

RECURSIVE FieldListsOfSize(_)
FieldListsOfSize(n) ==
    IF n = 0 THEN {<<>>}
    ELSE UNION {{<<f>> \o r : f \in FieldsOfSize(m), r \in FieldListsOfSize(n - m)} :
                  m \in 1..n}

Manifests == UNION {FieldListsOfSize(n) : n \in 0..MaxNodes}

\* The path of a field as the specification states it.
StatedPath(par, key) == IF par = <<>> THEN key ELSE par \o <<".">> \o key

\* The widget keys of the values and of the counts a store may hold for a
\* manifest: every scalar field and every repetition below MaxCount.
LeafKeys(fields, par) ==
    UNION {IF fields[n].type = "repeat"
           THEN {WKey(StatedPath(RepPath(StatedPath(par, fields[n].key), i),
                                 fields[n].fields[m].key)) :
                    i \in 0..(MaxCount - 1), m \in DOMAIN fields[n].fields}
           ELSE {WKey(StatedPath(par, fields[n].key))} : n \in DOMAIN fields}

CountKeys(fields, par) ==
    {CountKey(WKey(StatedPath(par, fields[n].key))) :
        n \in {m \in DOMAIN fields : fields[m].type = "repeat"}}

\* A store: some of the values are entered (each text is the key it was
\* entered under, so that no two entries hold the same text), some of the
\* counts are set.
Stores(fields, par) ==
    {[k \in L \cup DOMAIN cnt |-> IF k \in L THEN PyStr(k) ELSE PyInt(cnt[k])] :
        L \in SUBSET LeafKeys(fields, par),
        cnt \in UNION {[C -> 0..MaxCount] : C \in SUBSET CountKeys(fields, par)}}

\* The generate handler runs at most MaxGenerations times.
MaxGenerations == 2

\* What the user types as the document name: nothing, a name, a name of the
\* same slug, a name whose slug is empty.
DocNames == {<<>>, <<"x">>, <<"X", "!">>, <<"!">>}

\* What the converted text may measure: just below the threshold, and at it.
PlainTextLens == {MinPlainText - 1, MinPlainText}

\* What a run of render_docx_rtf may meet.  Pandoc is not consulted when the
\* rendering raises, and no text is measured unless Pandoc converts: one
\* value stands for what is not consulted.
RunConditions ==
    {o \in [rendering : {"ok", "error"}, pandoc : {"ok", "missing", "error"},
            text_len : PlainTextLens \cup {0}] :
        /\ o.rendering = "error" => o.pandoc = "ok"
        /\ (o.rendering = "ok" /\ o.pandoc = "ok") <=> o.text_len # 0}

\* The manifest texts of a Save Template: what the text area may hold.
TextFieldsEmpty ==
    <<"{", "\"", "f", "i", "e", "l", "d", "s", "\"", ":", "[", "]", "}">>
TextTitleAndFields ==
    <<" ", "{", "\"", "t", "i", "t", "l", "e", "\"", ":", " ", "\"", "t",
    "\"", ",", " ", "\"", "f", "i", "e", "l", "d", "s", "\"", ":", " ",
    "[", "{", "\"", "k", "e", "y", "\"", ":", " ", "\"", "a", "\"", "}",
    ",", " ", "1", "]", "}", " ">>
TextFieldsNumber ==
    <<"{", "\"", "f", "i", "e", "l", "d", "s", "\"", ":", "3", "}">>
TextFieldsNull ==
    <<"{", "\"", "f", "i", "e", "l", "d", "s", "\"", ":", "n", "u", "l",
    "l", "}">>
TextFieldsObject ==
    <<"{", "\"", "f", "i", "e", "l", "d", "s", "\"", ":", "{", "}", "}">>
TextNoFields ==
    <<"{", "\"", "t", "i", "t", "l", "e", "\"", ":", "\"", "t", "\"",
    "}">>
TextFieldsTwice ==
    <<"{", "\"", "f", "i", "e", "l", "d", "s", "\"", ":", "[", "]", ",",
    "\"", "f", "i", "e", "l", "d", "s", "\"", ":", "3", "}">>
TextArray ==
    <<"[", "]">>
TextUnclosed ==
    <<"{", "\"", "f", "i", "e", "l", "d", "s", "\"", ":", "[", "}">>
TextEmpty ==
    <<>>
TextExtraData ==
    <<"{", "\"", "f", "i", "e", "l", "d", "s", "\"", ":", "[", "]", "}",
    "x">>
TextSingleQuotes ==
    <<"{", "'", "f", "i", "e", "l", "d", "s", "'", ":", "[", "]", "}">>

ManifestTexts ==
    {TextFieldsEmpty, TextTitleAndFields, TextFieldsNumber,
     TextFieldsNull, TextFieldsObject, TextNoFields, TextFieldsTwice,
     TextArray, TextUnclosed, TextEmpty, TextExtraData,
     TextSingleQuotes}

\* Save Template is pressed at most MaxSaves times.
MaxSaves == 2

\* The uploads: a file name and the bytes of the file; NoFile is no upload.
NoFile == [name |-> <<>>, bytes |-> 0]
UploadNames == {<<"a">>, <<"b">>}
UploadBytes == {1, 2}
Uploads == [name : UploadNames, bytes : UploadBytes]
TplNames == {<<" ">>, <<"T">>}

\* What a Save Template was given and which of st.error (app.py:405,411) and
\* st.success (app.py:423) it showed.
SaveRecord(tpl_file, manifest_text, shown) ==
    [tpl_file |-> tpl_file, manifest_text |-> manifest_text, shown |-> shown]
NoSave == SaveRecord(NoFile, <<>>, "none")

NoDoc == [paragraphs |-> <<>>, tables |-> <<>>]

\* The parts of the state a specification does not use.
NoScan   == text = <<>> /\ found = <<>> /\ found_b = <<>>
NoUpload == doc = NoDoc /\ keys = <<>> /\ keys_b = <<>> /\ manifest_fields = <<>>
NoFormRun ==
    /\ schema = <<>> /\ parent = <<>> /\ session_state = EmptyDict
    /\ ctx = EmptyDict /\ ctx_b = EmptyDict
NoApp ==
    /\ templates = <<>> /\ cases = <<>> /\ case_seq = 0 /\ files = EmptyDict
    /\ last_gen = EmptyDict /\ generations = 0 /\ failed = {}
    /\ HAVE_SOFFICE = FALSE /\ last_run = NoRun /\ written = <<>>
    /\ delete_pressed = {}
    /\ now = 0
    /\ tpl_files = EmptyDict /\ saved = 0 /\ last_save = NoSave

(***************************************************************************)
(* SpecScan: the regular expression applied to one text                    *)
(***************************************************************************)

InitScan ==
    /\ pc = "text"
    /\ text \in StrsUpTo(ScanChars, MaxTextLen)
    /\ found = <<>>
    /\ found_b = <<>>
    /\ doc = NoDoc
    /\ keys = <<>>
    /\ keys_b = <<>>
    /\ manifest_fields = <<>>
    /\ NoFormRun
    /\ NoApp

\* _collect(text): the captures of one paragraph or cell (utils.py:53-55).
Collect ==
    /\ pc = "text"
    /\ pc' = "collected"
    /\ found' = FIELD_RE_findall(text)
    /\ found_b' = FIELD_RE_b_findall(text)
    /\ UNCHANGED <<text, uploadVars, formVars, appVars>>

NextScan == Collect

SpecScan == InitScan /\ [][NextScan]_vars

(***************************************************************************)
(* SpecUpload: a document is uploaded on the Create Template tab           *)
(***************************************************************************)

InitUpload ==
    /\ pc = "file"
    /\ doc \in Docs
    /\ keys = <<>>
    /\ keys_b = <<>>
    /\ manifest_fields = <<>>
    /\ text = <<>>
    /\ found = <<>>
    /\ found_b = <<>>
    /\ NoFormRun
    /\ NoApp

\* app.py:360-388: the placeholders of the upload and the draft manifest.
Upload ==
    /\ pc = "file"
    /\ pc' = "uploaded"
    /\ keys' = extract_placeholders(doc)
    /\ keys_b' = extract_placeholders_b(doc)
    /\ manifest_fields' = InferManifestFields(keys')
    /\ UNCHANGED <<doc, scanVars, formVars, appVars>>

NextUpload == Upload

SpecUpload == InitUpload /\ [][NextUpload]_vars

(***************************************************************************)
(* SpecForm: the context builder applied to a manifest and a store         *)
(***************************************************************************)

InitForm ==
    /\ pc = "form"
    /\ schema \in Manifests
    /\ parent \in Parents
    /\ session_state \in Stores(schema, parent)
    /\ ctx = EmptyDict
    /\ ctx_b = EmptyDict
    /\ NoScan
    /\ NoUpload
    /\ NoApp

\* app.py:489, app_b.py:304: ctx = collect_ctx(manifest["fields"], ...)
CollectCtx ==
    /\ pc = "form"
    /\ pc' = "collected_ctx"
    /\ ctx' = collect_ctx(schema, parent)
    /\ ctx_b' = collect_ctx_b(schema, parent)
    /\ UNCHANGED <<schema, parent, session_state, scanVars, uploadVars, appVars>>

NextForm == CollectCtx

SpecForm == InitForm /\ [][NextForm]_vars

(***************************************************************************)
(* SpecFill: a manifest is inferred, its form filled in and collected      *)
(***************************************************************************)

\* Tokens of the placeholder grammar [A-Za-z0-9_.\[\]]+ : scalars, members
\* of groups a and b, and a scalar spelt like a member of a repetition.
GrammarTokens ==
    { <<"a">>, <<"b">>,
      <<"a", "[", "]", ".", "b">>,                        \* a[].b
      <<"a", "[", "]", ".", "c">>,                        \* a[].c
      <<"b", "[", "]", ".", "b">>,                        \* b[].b
      <<"a", "[", "0", "]", ".", "b">>,                   \* a[0].b
      <<"a", ".", "b">> }                                 \* a.b

\* A document holds at most MaxTokens different tokens.
MaxTokens == 2

\* At most MaxEntries widgets are filled in.
MaxEntries == 2

\* The leaf positions of a form: a scalar field, a child of a group in one
\* repetition, and the count of a group.
ScalarPos(k)      == [kind |-> "scalar", key |-> k]
ChildPos(r, i, k) == [kind |-> "child", root |-> r, index |-> i, key |-> k]
CountPos(r)       == [kind |-> "count", root |-> r]

Positions(fields) ==
    UNION {IF fields[n].type = "repeat"
           THEN {ChildPos(fields[n].key, i, fields[n].fields[m].key) :
                    i \in 0..(MaxCount - 1), m \in DOMAIN fields[n].fields}
                \cup {CountPos(fields[n].key)}
           ELSE {ScalarPos(fields[n].key)} : n \in DOMAIN fields}

\* The widget key render_fields gives the widget of a position
\* (app.py:209-228, app_b.py:112-132).
Address(variant, par, p) ==
    IF p.kind = "scalar" THEN WKey(PathOf(variant, par, p.key))
    ELSE IF p.kind = "count" THEN CountKey(WKey(PathOf(variant, par, p.root)))
    ELSE WKey(PathOf(variant,
                     RepPath(PathOf(variant, par, p.root), p.index), p.key))

\* What the user types into the widget of a position: a text that spells
\* the position, so that no two positions are given the same text.
Typed(p) ==
    IF p.kind = "scalar" THEN <<"s", ":">> \o p.key
    ELSE <<"c", ":">> \o p.root \o <<":">> \o str(p.index) \o <<":">> \o p.key

\* app.py passes the page prefix as parent (app.py:471-489), app_b.py passes
\* none (app_b.py:304).
VariantOf(par) == IF par = <<>> THEN "b" ELSE "a"

InitFill ==
    /\ pc = "tokens"
    /\ keys \in {sorted(T) : T \in {U \in SUBSET GrammarTokens :
                                        Cardinality(U) <= MaxTokens}}
    /\ keys_b = <<>>
    /\ doc = NoDoc
    /\ manifest_fields = <<>>
    /\ parent \in Parents
    /\ NoScan
    /\ NoApp
    /\ schema = <<>> /\ session_state = EmptyDict
    /\ ctx = EmptyDict /\ ctx_b = EmptyDict

\* app.py:369-388 (app_b.py:198-221): the draft manifest of the tokens, saved
\* as it is and loaded as the form's schema.
Infer ==
    /\ pc = "tokens"
    /\ pc' = "form"
    /\ manifest_fields' = InferManifestFields(keys)
    /\ schema' = manifest_fields'
    /\ UNCHANGED <<doc, keys, keys_b, parent, session_state, ctx, ctx_b,
                   scanVars, appVars>>

\* render_fields: the user fills in the widget of one position; Streamlit
\* stores the value under the widget's key.  A count is at least 1
\* (min_value=1).
Enter ==
    /\ pc = "form"
    /\ Cardinality(DOMAIN session_state) < MaxEntries
    /\ \E p \in Positions(schema) :
        LET wkey == Address(VariantOf(parent), parent, p)
        IN  IF p.kind = "count"
            THEN \E cnt \in 1..MaxCount :
                    session_state' = DictSet(session_state, wkey, PyInt(cnt))
            ELSE session_state' = DictSet(session_state, wkey, PyStr(Typed(p)))
    /\ UNCHANGED <<pc, schema, parent, ctx, ctx_b, scanVars, uploadVars, appVars>>

NextFill == Infer \/ Enter \/ CollectCtx

SpecFill == InitFill /\ [][NextFill]_vars

(***************************************************************************)
(* Spec: the application, cases generated and deleted                      *)
(***************************************************************************)

\* app.py:107-173: init_db() and _load_builtin_templates() on a fresh
\* database, no document generated yet.
Init ==
    /\ pc = "app"
    /\ templates = SeededTemplates
    /\ cases = <<>>
    /\ case_seq = 0
    /\ files = EmptyDict
    /\ last_gen = EmptyDict
    /\ generations = 0
    /\ failed = {}
    /\ HAVE_SOFFICE \in BOOLEAN
    /\ last_run = NoRun
    /\ written = <<>>
    /\ delete_pressed = {}
    /\ now = 0
    /\ tpl_files = EmptyDict /\ saved = 0 /\ last_save = NoSave
    /\ NoScan
    /\ NoUpload
    /\ NoFormRun

\* app.py:487-511: Generate DOCX / Generate RTF on the chosen template.
Generate ==
    /\ pc = "app"
    /\ generations < MaxGenerations
    /\ \E t \in DOMAIN list_templates, doc_name \in DocNames, o \in RunConditions :
        LET tmpl_row     == list_templates[t]
            rendering    == o.rendering
            pandoc       == o.pandoc
            text_len     == o.text_len
            n            == generations + 1
            next_case_id == Len(JoinedCases) + 1
            base_stem    == IF doc_name # <<>> THEN _slug(doc_name)
                            ELSE _slug(tmpl_row.name \o <<"_">> \o str(next_case_id))
            r            == render_docx_rtf(files, base_stem, n,
                                            rendering, pandoc, text_len)
            case_id      == case_seq + 1
        IN  /\ generations' = n
            /\ files' = r.files
            /\ last_run' = RunRecord(n, rendering, pandoc, text_len, r)
            /\ written' = written \o r.wrote
            /\ IF r.raised = "none"
               THEN /\ cases' = Append(cases,
                          CaseRow(case_id, tmpl_row.id, r.docx_path, r.rtf_path,
                                  doc_name, now))
                    /\ case_seq' = case_id
                    /\ last_gen' = [docx_path |-> r.docx_path,
                                    rtf_path |-> r.rtf_path,
                                    base |-> base_stem, case_id |-> case_id]
                    /\ UNCHANGED failed
               ELSE /\ failed' = failed \cup {n}
                    /\ UNCHANGED <<cases, case_seq, last_gen>>
    /\ UNCHANGED <<pc, templates, HAVE_SOFFICE, delete_pressed, now,
                   storeVars,
                   scanVars, uploadVars, formVars>>

\* delete_case with the two unlink lines commented out, as db.py:212 offers:
\* the row goes and the files stay.
delete_case_keeps_files(cs, fs, case_id, docx_path, rtf_path) ==
    [cases |-> SelectSeq(cs, LAMBDA row : row.id # case_id), files |-> fs]

\* db.py:203-215 delete_case: DELETE FROM cases WHERE id = ?, committed, then
\* each of the two paths that exists is unlinked.
delete_case(cs, fs, case_id, docx_path, rtf_path) ==
    [cases |-> SelectSeq(cs, LAMBDA row : row.id # case_id),
     files |-> Unlink(Unlink(fs, docx_path), rtf_path)]

\* app.py:581-589, db.py:203-215: the delete button of a listed case.
DeleteCase ==
    /\ pc = "app"
    /\ \E i \in DOMAIN JoinedCases :
        LET c == JoinedCases[i]
            d == delete_case(cases, files, c.id, c.docx_path, c.rtf_path)
        IN  /\ cases' = d.cases
            /\ files' = d.files
            /\ last_gen' = IF "case_id" \in DOMAIN last_gen /\ last_gen.case_id = c.id
                           THEN EmptyDict ELSE last_gen
    /\ UNCHANGED <<pc, templates, case_seq, generations, failed,
                   HAVE_SOFFICE, last_run, written, delete_pressed, now,
                   storeVars,
                   scanVars, uploadVars, formVars>>

Next == Generate \/ DeleteCase

Spec == Init /\ [][Next]_vars

(***************************************************************************)
(* SpecCases: cases generated and deleted while the clock runs             *)
(***************************************************************************)

\* The clock is followed for MaxClock seconds.
MaxClock == 1

\* A second passes on the wall clock that datetime.now reads (db.py:165).
Tick ==
    /\ pc = "app"
    /\ now < MaxClock
    /\ now' = now + 1
    /\ UNCHANGED <<pc, templates, cases, case_seq, files, last_gen, generations,
                   failed, HAVE_SOFFICE, last_run, written, delete_pressed,
                   storeVars,
                   scanVars, uploadVars, formVars>>

NextCases == Generate \/ DeleteCase \/ Tick

SpecCases == Init /\ [][NextCases]_vars

(***************************************************************************)
(* SpecTemplates: cases generated and templates deleted                    *)
(***************************************************************************)

\* The Delete button of a template is pressed for at most MaxTemplateDeletes
\* templates: as many as there are built-in templates.
MaxTemplateDeletes == 3

\* app.py:440-451, the Delete button of a listed template:
\* UPDATE templates SET is_active = 0 WHERE id = ?
ArchiveTemplate ==
    /\ pc = "app"
    /\ Cardinality(delete_pressed) < MaxTemplateDeletes
    /\ \E i \in DOMAIN list_templates :
        LET row == list_templates[i]
        IN  /\ templates' = [j \in DOMAIN templates |->
                               IF templates[j].id = row.id
                               THEN [templates[j] EXCEPT !.is_active = FALSE]
                               ELSE templates[j]]
            /\ delete_pressed' = delete_pressed \cup {row.id}
    /\ UNCHANGED <<pc, cases, case_seq, files, last_gen, generations, failed,
                   HAVE_SOFFICE, last_run, written, now,
                   storeVars,
                   scanVars, uploadVars, formVars>>

\* app_b.py:269-272, the Delete button of a listed template:
\*   get_conn().execute("DELETE FROM templates WHERE id = ?", ...)
\*   get_conn().commit()
\* The DELETE runs on one connection and the commit on another: the first
\* connection is dropped with its transaction open, which sqlite3 rolls back,
\* so the table is left as it was.
DeleteTemplate_b ==
    /\ pc = "app"
    /\ Cardinality(delete_pressed) < MaxTemplateDeletes
    /\ \E i \in DOMAIN list_templates :
        delete_pressed' = delete_pressed \cup {list_templates[i].id}
    /\ UNCHANGED <<pc, templates, cases, case_seq, files, last_gen, generations,
                   failed, HAVE_SOFFICE, last_run, written, now,
                   storeVars,
                   scanVars, uploadVars, formVars>>

NextTemplates == Generate \/ ArchiveTemplate \/ DeleteTemplate_b

SpecTemplates == Init /\ [][NextTemplates]_vars

(***************************************************************************)
(* SpecStore: templates saved and archived, and the script run again       *)
(***************************************************************************)

\* app.py:187 TEMPLATES_DIR / tpl_file.name
TemplatePath(name) ==
    <<"d", "a", "t", "a", "/", "t", "e", "m", "p", "l", "a", "t", "e", "s", "/">>
    \o name

\* f"Template {len(list_templates()) + 1}"
DefaultName(n) == <<"T", "e", "m", "p", "l", "a", "t", "e", " ">> \o str(n)

\* app.py:403-423 (app_b.py:238-257), the Save Template button: without an
\* upload, or with a manifest text that does not parse to a dict whose
\* "fields" is a list, st.error and st.stop(); else the upload's bytes are
\* written to data/templates/<file name> and the row is inserted.
SaveTemplate ==
    /\ pc = "app"
    /\ saved < MaxSaves
    /\ saved' = saved + 1
    /\ \E tpl_file \in Uploads \cup {NoFile}, tpl_name \in TplNames,
          manifest_text \in ManifestTexts :
        LET manifest   == ParseManifest(manifest_text)
            stripped   == strip(tpl_name, " ")
            clean_name == IF stripped # <<>> THEN stripped
                          ELSE DefaultName(Len(list_templates) + 1)
            dst_path   == TemplatePath(tpl_file.name)
        IN  IF tpl_file = NoFile \/ manifest.raised # "none"
            THEN /\ last_save' = SaveRecord(tpl_file, manifest_text, "error")
                 /\ UNCHANGED <<templates, tpl_files>>
            ELSE /\ tpl_files' = DictSet(tpl_files, dst_path, tpl_file.bytes)
                 /\ templates' = Append(templates,
                        TemplateRow(Len(templates) + 1, clean_name, dst_path))
                 /\ last_save' = SaveRecord(tpl_file, manifest_text, "success")
    /\ UNCHANGED <<pc, cases, case_seq, files, last_gen, generations, failed,
                   HAVE_SOFFICE, last_run, written, delete_pressed, now,
                   scanVars, uploadVars, formVars>>

\* app.py:105-173, a run of the script from its top, which start-up and
\* every rerun are: init_db() leaves existing tables alone, then
\* _load_builtin_templates().
Startup ==
    /\ pc = "app"
    /\ templates' = _load_builtin_templates(templates)
    /\ UNCHANGED <<pc, cases, case_seq, files, last_gen, generations, failed,
                   HAVE_SOFFICE, last_run, written, delete_pressed, now,
                   storeVars, scanVars, uploadVars, formVars>>

NextSave == SaveTemplate

\* Templates saved, one after the other, on the seeded database.
SpecSave == Init /\ [][NextSave]_vars

NextStore == SaveTemplate \/ ArchiveTemplate \/ Startup

SpecStore == Init /\ [][NextStore]_vars

(***************************************************************************)
(* The placeholder grammar, stated on positions of the text                *)
(***************************************************************************)

\* t[a..b] is the CAPTURE of a span  {{ \s* CAPTURE \s* }}  of t whose
\* capture is a non-empty run of characters of cls.
IsCaptureSpan(t, a, b, cls) ==
    /\ a <= b
    /\ \A k \in a..b : t[k] \in cls
    /\ \E i \in 1..(a - 2) :
          /\ t[i] = "{" /\ t[i + 1] = "{"
          /\ \A k \in (i + 2)..(a - 1) : t[k] \in Whitespace
    /\ \E j \in (b + 1)..(Len(t) - 1) :
          /\ t[j] = "}" /\ t[j + 1] = "}"
          /\ \A k \in (b + 1)..(j - 1) : t[k] \in Whitespace

Captures(t, cls) ==
    {SubSeq(t, x[1], x[2]) :
        x \in {y \in (1..Len(t)) \X (1..Len(t)) : IsCaptureSpan(t, y[1], y[2], cls)}}

\* CAPTURE of the grammar: [A-Za-z0-9_.\[\]]+
GrammarChars == Letters \cup Digits \cup {"_", ".", "[", "]"}

\* The text-bearing units of the uploaded document.
IsParagraphText(t) == \E i \in DOMAIN doc.paragraphs : doc.paragraphs[i] = t
IsCellText(t) ==
    \E i \in DOMAIN doc.tables : \E j \in DOMAIN doc.tables[i] :
        \E k \in DOMAIN doc.tables[i][j] : doc.tables[i][j][k] = t

UnitTexts ==
    {doc.paragraphs[i] : i \in DOMAIN doc.paragraphs}
    \cup {u \in DocTexts : IsCellText(u)}

DocCaptures(cls) == UNION {Captures(t, cls) : t \in UnitTexts}

StrictlyAscending(ks) ==
    \A i \in DOMAIN ks : \A j \in DOMAIN ks : i < j => StrLess(ks[i], ks[j])

(***************************************************************************)
(* Claims                                                                  *)
(***************************************************************************)

\* C1: extract_placeholders returns exactly the captures of the scanner's
\* pattern found in a paragraph or in a table cell, each once, in ascending
\* order; a document without placeholders gives the empty list.  (Which
\* spans the pattern accepts is C2.)
C1_ExtractIsSortedUnion ==
    pc = "uploaded" =>
        LET want   == DocCaptures(FieldClass)
            want_b == DocCaptures(FieldClass_b)
        IN  /\ Range(keys) = want
            /\ Len(keys) = Cardinality(want)
            /\ StrictlyAscending(keys)
            /\ Range(keys_b) = want_b
            /\ Len(keys_b) = Cardinality(want_b)
            /\ StrictlyAscending(keys_b)
            /\ (want = {} => keys = <<>>)

\* A paragraph and a cell share a placeholder, and a cell holds one that no
\* paragraph holds.
C1_Witness ==
    /\ pc = "uploaded"
    /\ \E p \in DocTexts : \E c \in DocTexts :
          /\ IsParagraphText(p) /\ IsCellText(c)
          /\ Captures(p, FieldClass) \cap Captures(c, FieldClass) # {}
          /\ \E k \in Captures(c, FieldClass) :
                \A q \in DocTexts : IsParagraphText(q) => k \notin Captures(q, FieldClass)
    /\ Len(keys) >= 2

\* C2: every capture the scanner reports is a non-empty run of letters,
\* digits, "_", "." and square brackets standing in a span {{ \s* . \s* }}.
C2_OnlyGrammarCaptures ==
    pc = "collected" =>
        \A i \in DOMAIN found : found[i] \in Captures(text, GrammarChars)

\* The stricter expression of utils_b.py keeps to the grammar.
ScannerB_OnlyGrammarCaptures ==
    pc = "collected" => Range(found_b) = Captures(text, GrammarChars)

\* The first position of "[]." in k, 0 if there is none.
FirstMark(k) ==
    IF \E n \in 1..Len(k) : StartsAt(k, GroupMark, n)
    THEN CHOOSE n \in 1..Len(k) :
            /\ StartsAt(k, GroupMark, n)
            /\ \A m \in 1..(n - 1) : ~StartsAt(k, GroupMark, m)
    ELSE 0
RootOf(k) == SubSeq(k, 1, FirstMark(k) - 1)
SubOf(k)  == SubSeq(k, FirstMark(k) + 3, Len(k))

IsGroupToken(k) == FirstMark(k) # 0
IsScalar(f) == f.type = "text"
IsRepeat(f) == f.type = "repeat"

ScalarTokens == {k \in Range(keys) : ~IsGroupToken(k)}
GroupTokens  == {k \in Range(keys) : IsGroupToken(k)}
PosInKeys(k) == CHOOSE i \in DOMAIN keys : keys[i] = k
\* Where a root is first seen in keys.
FirstSeen(root) ==
    CHOOSE i \in DOMAIN keys :
        /\ IsGroupToken(keys[i]) /\ RootOf(keys[i]) = root
        /\ \A j \in 1..(i - 1) : ~(IsGroupToken(keys[j]) /\ RootOf(keys[j]) = root)

\* C3: a token with "[]." gives, split at the first "[].", a child keyed sub
\* in the one repeat field keyed root; a token without it is one text field
\* keyed by the whole token.
C3_TokenClassification ==
    pc = "uploaded" =>
        \A k \in Range(keys) :
            IF IsGroupToken(k)
            THEN /\ Cardinality({i \in DOMAIN manifest_fields :
                        /\ IsRepeat(manifest_fields[i])
                        /\ manifest_fields[i].key = RootOf(k)}) = 1
                 /\ \E i \in DOMAIN manifest_fields :
                        /\ IsRepeat(manifest_fields[i])
                        /\ manifest_fields[i].key = RootOf(k)
                        /\ \E j \in DOMAIN manifest_fields[i].fields :
                              /\ manifest_fields[i].fields[j].key = SubOf(k)
                              /\ IsScalar(manifest_fields[i].fields[j])
                 /\ ~\E i \in DOMAIN manifest_fields :
                        IsScalar(manifest_fields[i]) /\ manifest_fields[i].key = k
            ELSE Cardinality({i \in DOMAIN manifest_fields :
                        /\ IsScalar(manifest_fields[i])
                        /\ manifest_fields[i].key = k}) = 1

\* A token with two "[]." and a token with none were classified.
C3_Witness ==
    /\ pc = "uploaded"
    /\ \E k \in Range(keys) :
          /\ IsGroupToken(k)
          /\ Contains(SubOf(k), GroupMark)
    /\ \E k \in Range(keys) : ~IsGroupToken(k)

\* C4: the text fields come first, in the order of their tokens in keys;
\* then one repeat field per root, in the order the roots are first seen;
\* the children of a group are the subs of its root, in the order seen.
C4_ManifestOrder ==
    pc = "uploaded" =>
        LET mf == manifest_fields
            nS == Cardinality(ScalarTokens)
            roots == {RootOf(k) : k \in GroupTokens}
        IN  /\ Len(mf) = nS + Cardinality(roots)
            /\ \A i \in 1..nS :
                  /\ IsScalar(mf[i]) /\ mf[i].key \in ScalarTokens
                  /\ \A j \in 1..nS :
                        i < j => PosInKeys(mf[i].key) < PosInKeys(mf[j].key)
            /\ \A i \in (nS + 1)..Len(mf) :
                  /\ IsRepeat(mf[i]) /\ mf[i].key \in roots
                  /\ \A j \in (nS + 1)..Len(mf) :
                        i < j => FirstSeen(mf[i].key) < FirstSeen(mf[j].key)
                  /\ LET subs == {k \in GroupTokens : RootOf(k) = mf[i].key}
                         ch == mf[i].fields
                     IN  /\ Len(ch) = Cardinality(subs)
                         /\ \A a \in DOMAIN ch :
                               /\ \E k \in subs : SubOf(k) = ch[a].key
                               /\ \A b \in DOMAIN ch : a < b =>
                                    \E k1 \in subs : \E k2 \in subs :
                                        /\ SubOf(k1) = ch[a].key
                                        /\ SubOf(k2) = ch[b].key
                                        /\ PosInKeys(k1) < PosInKeys(k2)

\* Two text fields, two groups and a group of two children.
C4_Witness ==
    /\ pc = "uploaded"
    /\ Cardinality(ScalarTokens) >= 2
    /\ Cardinality({RootOf(k) : k \in GroupTokens}) >= 2
    /\ \E i \in DOMAIN manifest_fields :
          IsRepeat(manifest_fields[i]) /\ Len(manifest_fields[i].fields) >= 2

NoDuplicateKeys(fs) ==
    \A i \in DOMAIN fs : \A j \in DOMAIN fs : i # j => fs[i].key # fs[j].key

\* C5: no two sibling fields of the inferred manifest share a key, at the
\* top level or inside a group; a name that is both a scalar token and a
\* root is in the manifest as the repeat field only.
C5_UniqueSiblingKeys ==
    pc = "uploaded" =>
        /\ NoDuplicateKeys(manifest_fields)
        /\ \A i \in DOMAIN manifest_fields :
              IsRepeat(manifest_fields[i]) =>
                  NoDuplicateKeys(manifest_fields[i].fields)
        /\ \A k \in ScalarTokens :
              k \in {RootOf(g) : g \in GroupTokens} =>
                  ~\E i \in DOMAIN manifest_fields :
                      IsScalar(manifest_fields[i]) /\ manifest_fields[i].key = k

(***************************************************************************)
(* The context builder: what a built context must look like                *)
(***************************************************************************)

Built == pc = "collected_ctx"

\* A later sibling of the same key overwrites the dict entry of an earlier
\* one; the properties below speak of the field that owns the entry.
LastOfKey(fields, n) ==
    \A m \in DOMAIN fields : m > n => fields[m].key # fields[n].key

IsLeaf(v) == v.t \in {"None", "str", "int"}

\* c has exactly the keys of fields, leaves under scalar keys and, under a
\* group key, a sequence of dicts of exactly the children's keys.
RECURSIVE KeysMatch(_, _)
KeysMatch(fields, c) ==
    /\ DOMAIN c = {fields[n].key : n \in DOMAIN fields}
    /\ \A n \in DOMAIN fields : LastOfKey(fields, n) =>
         LET v == c[fields[n].key]
         IN  IF fields[n].type = "repeat"
             THEN /\ v.t = "list"
                  /\ \A j \in DOMAIN v.v : KeysMatch(fields[n].fields, v.v[j])
             ELSE IsLeaf(v)

\* The entry of the store under wkey, the empty string when there is none.
StoredOrEmpty(wkey) == DictGet(session_state, wkey, PyStr(""))

\* Every text field of c, at every level, holds the stored entry of its path
\* or the empty string.
RECURSIVE ScalarsAsStored(_, _, _, _)
ScalarsAsStored(fields, par, c, variant) ==
    \A n \in DOMAIN fields : LastOfKey(fields, n) =>
        LET key  == fields[n].key
            path == PathOf(variant, par, key)
        IN  CASE fields[n].type = "text" ->
                   /\ key \in DOMAIN c
                   /\ c[key] = StoredOrEmpty(WKey(path))
              [] fields[n].type = "repeat" ->
                   /\ key \in DOMAIN c
                   /\ c[key].t = "list"
                   /\ \A j \in DOMAIN c[key].v :
                        ScalarsAsStored(fields[n].fields, RepPath(path, j - 1),
                                        c[key].v[j], variant)
              [] OTHER -> TRUE

\* The stored repetition count of the group at path P, 1 when none is stored.
StoredCount(P) ==
    IF CountKey(WKey(P)) \in DOMAIN session_state
    THEN session_state[CountKey(WKey(P))].v
    ELSE 1

\* The entry of c for the group field g at path P is the sequence of
\* StoredCount(P) sub-contexts, the i-th being sub(children, P[i]) and
\* holding each stored text of a child at P[i].child.
GroupAsCounted(g, P, c, variant) ==
    LET n == StoredCount(P)
    IN  /\ g.key \in DOMAIN c
        /\ c[g.key].t = "list"
        /\ Len(c[g.key].v) = n
        /\ \A i \in 0..(n - 1) :
             /\ c[g.key].v[i + 1] =
                  (IF variant = "a" THEN collect_ctx(g.fields, RepPath(P, i))
                                    ELSE collect_ctx_b(g.fields, RepPath(P, i)))
             /\ \A m \in DOMAIN g.fields :
                  LET ck == g.fields[m].key
                      w  == WKey(RepPath(P, i) \o <<".">> \o ck)
                  IN  (/\ g.fields[m].type = "text"
                       /\ LastOfKey(g.fields, m)
                       /\ w \in DOMAIN session_state)
                      => /\ ck \in DOMAIN c[g.key].v[i + 1]
                         /\ c[g.key].v[i + 1][ck] = session_state[w]

GroupsAsCounted(c, variant) ==
    \A n \in DOMAIN schema :
        (schema[n].type = "repeat" /\ LastOfKey(schema, n)) =>
            GroupAsCounted(schema[n], PathOf(variant, parent, schema[n].key),
                           c, variant)

\* What is stored under the stated paths is what c holds: a text field's
\* entry under StatedPath, a group's count under StatedPath and a child's
\* entry under StatedPath[i].child.
AddressedAsStated(c) ==
    \A n \in DOMAIN schema : LastOfKey(schema, n) =>
        LET key == schema[n].key
            P   == StatedPath(parent, key)
            cnt == CountKey(WKey(P))
        IN  /\ (schema[n].type = "text" /\ WKey(P) \in DOMAIN session_state)
                 => (key \in DOMAIN c /\ c[key] = session_state[WKey(P)])
            /\ (schema[n].type = "repeat" /\ cnt \in DOMAIN session_state)
                 => /\ key \in DOMAIN c
                    /\ c[key].t = "list"
                    /\ Len(c[key].v) = session_state[cnt].v
                    /\ \A i \in 0..(session_state[cnt].v - 1) :
                       \A m \in DOMAIN schema[n].fields :
                         LET ck == schema[n].fields[m].key
                             w  == WKey(RepPath(P, i) \o <<".">> \o ck)
                         IN  (/\ schema[n].fields[m].type = "text"
                              /\ LastOfKey(schema[n].fields, m)
                              /\ w \in DOMAIN session_state)
                             => /\ ck \in DOMAIN c[key].v[i + 1]
                                /\ c[key].v[i + 1][ck] = session_state[w]

\* C6: the built context has exactly the keys of the manifest's fields at
\* each level, a leaf under every scalar key and a sequence of sub-contexts
\* of exactly the children's keys under every group key, whatever the
\* declared type of a field; stated of both variants of collect_ctx.
C6_ContextKeysMatchManifest ==
    Built => (KeysMatch(schema, ctx) /\ KeysMatch(schema, ctx_b))

\* The same of app.py's collect_ctx alone.
AppContextKeysMatchManifest == Built => KeysMatch(schema, ctx)

\* C7: a scalar field holds the entry stored at its path exactly as entered,
\* and the empty string when the store has no entry for the path; stated of
\* both variants of collect_ctx.
C7_ScalarStoredOrEmpty ==
    Built => (/\ ScalarsAsStored(schema, parent, ctx, "a")
              /\ ScalarsAsStored(schema, parent, ctx_b, "b"))

\* The same of app_b.py's collect_ctx alone.
AppBScalarStoredOrEmpty == Built => ScalarsAsStored(schema, parent, ctx_b, "b")

\* C8: a group field at path P with stored count n yields a sequence of
\* exactly n sub-contexts in index order, the i-th built from the children
\* with path P[i]; n = 0 yields the empty sequence and an absent count
\* counts as 1.
C8_GroupYieldsCountedSequence ==
    Built => (GroupsAsCounted(ctx, "a") /\ GroupsAsCounted(ctx_b, "b"))

\* C8 witness: a group with stored count 2 whose two sub-contexts hold
\* different entries.
C8_Witness ==
    /\ Built
    /\ parent # <<>>
    /\ \E n \in DOMAIN schema :
         /\ schema[n].type = "repeat"
         /\ LastOfKey(schema, n)
         /\ CountKey(WKey(FieldPath(parent, schema[n].key))) \in DOMAIN session_state
         /\ StoredCount(FieldPath(parent, schema[n].key)) = 2
         /\ Len(ctx[schema[n].key].v) = 2
         /\ ctx[schema[n].key].v[1] # ctx[schema[n].key].v[2]
         /\ ctx_b[schema[n].key].v[1] # ctx_b[schema[n].key].v[2]

\* C9: a field is addressed under parent + "." + key when the parent prefix
\* is non-empty and under key alone when it is empty, the i-th repetition of
\* a group under group_path + "[" + i + "]"; stated of both variants.
C9_FieldsAddressedByStatedPath ==
    Built => (AddressedAsStated(ctx) /\ AddressedAsStated(ctx_b))

\* The same of app_b.py alone, and of app.py under a non-empty prefix.
AppBAddressedByStatedPath == Built => AddressedAsStated(ctx_b)
AppAddressedUnderPrefix == (Built /\ parent # <<>>) => AddressedAsStated(ctx)

(***************************************************************************)
(* Generated documents                                                     *)
(***************************************************************************)

Exists(path) == path \in DOMAIN files

\* A step that adds a Case row finds both of the row's documents on disk.
InsertedWithBothDocuments ==
    \A i \in DOMAIN cases' :
        (\A j \in DOMAIN cases : cases[j].id # cases'[i].id) =>
            /\ cases'[i].docx_path \in DOMAIN files'
            /\ cases'[i].rtf_path \in DOMAIN files'

\* A run of the handler that raised adds no Case row.
FailureWritesNoCase == (failed' # failed) => (cases' = cases)

\* No listed case offers the filled document of a run that raised.
FailedDocumentNotListed ==
    \A i \in DOMAIN JoinedCases :
        Exists(JoinedCases[i].docx_path) =>
            files[JoinedCases[i].docx_path].gen \notin failed

\* C10: a Case row is inserted only when both of its documents are on disk
\* at that moment; a generation whose rendering or conversion fails writes
\* no Case row, and its filled document is not listed to the user.
C10_CaseOnlyWithBothDocuments ==
    [][/\ InsertedWithBothDocuments
       /\ FailureWritesNoCase
       /\ FailedDocumentNotListed']_vars

\* The first two parts alone.
CaseRowOnlyAfterSuccess ==
    [][InsertedWithBothDocuments /\ FailureWritesNoCase]_vars

(***************************************************************************)
(* The conversion engines                                                  *)
(***************************************************************************)

\* The last call of render_docx_rtf got as far as converting.
Converting == last_run.n > 0 /\ last_run.rendering = "ok"

Invoked(e) == \E i \in DOMAIN last_run.engines : last_run.engines[i] = e

\* Engine e was invoked, and before any invocation of engine f.
InvokedBefore(e, f) ==
    \E i \in DOMAIN last_run.engines :
        /\ last_run.engines[i] = e
        /\ \A j \in 1..(i - 1) : last_run.engines[j] # f

\* Pandoc was not on PATH, raised, or produced too little text.
PandocPathRaised ==
    \/ last_run.pandoc # "ok"
    \/ last_run.text_len < MinPlainText

\* C11 as stated: the office engine (soffice) is the primary engine, invoked
\* first when it is available, and Pandoc is invoked only as the fallback,
\* when the office engine is unavailable or has raised.
C11_OfficeEnginePrimary ==
    Converting =>
        /\ HAVE_SOFFICE =>
             (last_run.engines # <<>> /\ last_run.engines[1] = "soffice")
        /\ Invoked("pandoc") =>
             (~HAVE_SOFFICE \/ InvokedBefore("soffice", "pandoc"))

\* C11 amended: Pandoc is the primary engine, invoked first whenever it is on
\* PATH, whether or not the office engine is available; the office engine is
\* invoked only as the fallback, after the Pandoc path was unavailable or has
\* raised.
C11_PandocPrimary ==
    Converting =>
        /\ last_run.pandoc # "missing" =>
             (last_run.engines # <<>> /\ last_run.engines[1] = "pandoc")
        /\ Invoked("soffice") =>
             /\ PandocPathRaised
             /\ last_run.pandoc # "missing" => InvokedBefore("pandoc", "soffice")

\* C11 witness: the office engine is available and a conversion has run, with
\* Pandoc the engine invoked.
C11_Witness ==
    /\ Converting
    /\ HAVE_SOFFICE
    /\ last_run.engines = <<"pandoc">>
    /\ last_run.raised = "none"

\* The step is a run of the generate handler.
GenerateStep == generations' # generations

\* The run's call returned a converted document that Pandoc wrote.
ReturnedFromPandoc ==
    /\ last_run'.raised = "none"
    /\ last_run'.rtf_path \in DOMAIN files'
    /\ files'[last_run'.rtf_path].engine = "pandoc"

\* Pandoc ran to the end and its text is below the threshold.
PandocTextShort ==
    /\ last_run'.rendering = "ok"
    /\ last_run'.pandoc = "ok"
    /\ last_run'.text_len < MinPlainText

NeitherEngineAvailable ==
    Converting /\ last_run.pandoc = "missing" /\ ~HAVE_SOFFICE

\* The last call met a content problem: the rendering raised, or Pandoc ran
\* and raised, or its text was rejected.
ContentProblem ==
    /\ last_run.n > 0
    /\ \/ last_run.rendering = "error"
       \/ last_run.pandoc = "error"
       \/ (last_run.pandoc = "ok" /\ last_run.text_len < MinPlainText)

\* C13: with neither engine available the conversion fails with the dedicated
\* outcome ConversionUnavailableError, which no content problem raises.
C13_UnavailableIsDistinct ==
    /\ NeitherEngineAvailable => last_run.raised = "ConversionUnavailableError"
    /\ ContentProblem =>
         last_run.raised \notin {"none", "ConversionUnavailableError"}

\* What the code raises instead: the same NameError when no engine is there
\* and when Pandoc ran and failed.
UnavailableRaisesNameError ==
    NeitherEngineAvailable => last_run.raised = "NameError"
ConversionFailureRaisesNameError ==
    (Converting /\ ContentProblem) => last_run.raised = "NameError"

(***************************************************************************)
(* Artifact locations                                                      *)
(***************************************************************************)

\* C14: across generations and deletions every generation writes its filled
\* and converted documents to locations no earlier generation has written:
\* no path is written twice, also when two cases share a document name or a
\* case was deleted in between.
C14_ArtifactsWrittenOnce ==
    \A i, j \in DOMAIN written : written[i] = written[j] => i = j

\* No step changes the content of a file that stays on disk.
NoFileOverwritten ==
    [][\A q \in DOMAIN files \cap DOMAIN files' : files'[q] = files[q]]_vars

(***************************************************************************)
(* Deleted templates                                                       *)
(***************************************************************************)

TemplateIds == {templates[i].id : i \in DOMAIN templates}
ActiveIds   == {list_templates[i].id : i \in DOMAIN list_templates}

\* The row of template id is kept with the active flag false, the template is
\* not in the active listing, and each of its cases is returned by
\* list_cases with the template's name and the stored paths.
ArchivedAndCasesKept(id) ==
    /\ \E i \in DOMAIN templates :
         /\ templates[i].id = id
         /\ ~templates[i].is_active
         /\ \A c \in DOMAIN cases : cases[c].template_id = id =>
              \E j \in DOMAIN JoinedCases :
                 /\ JoinedCases[j].id = cases[c].id
                 /\ JoinedCases[j].template_name = templates[i].name
                 /\ JoinedCases[j].docx_path = cases[c].docx_path
                 /\ JoinedCases[j].rtf_path = cases[c].rtf_path
    /\ id \notin ActiveIds

\* C15: deleting (archiving) a template never removes its row, it only sets
\* the active flag to false; the template leaves the active listing and each
\* case generated from it is still returned by list_cases with its template
\* name and unchanged paths.
C15_DeleteArchivesTemplate ==
    \A id \in delete_pressed : ArchivedAndCasesKept(id)

\* app.py's handler alone: a step that changes table templates keeps every
\* row and clears the flag of rows that then satisfy the above.
AppArchiveKeepsRows ==
    [][templates' # templates =>
        /\ Len(templates') = Len(templates)
        /\ \A i \in DOMAIN templates :
             /\ templates'[i].id = templates[i].id
             /\ templates'[i].name = templates[i].name
             /\ templates'[i] # templates[i] => ArchivedAndCasesKept(templates[i].id)'
        /\ cases' = cases]_vars

(***************************************************************************)
(* Deleted cases                                                           *)
(***************************************************************************)

ListedIds == {JoinedCases[i].id : i \in DOMAIN JoinedCases}

\* The rows of table cases that the step removes.
DeletedRows == {cases[i] : i \in {k \in DOMAIN cases :
                   \A j \in DOMAIN cases' : cases'[j].id # cases[k].id}}

\* C16: after a Case is deleted, list_cases no longer returns its row and
\* neither its filled document nor its converted document exists on disk.
C16_DeletedCaseIsGone ==
    [][\A row \in DeletedRows :
          /\ row.id \notin ListedIds'
          /\ ~Exists(row.docx_path)'
          /\ ~Exists(row.rtf_path)']_vars

\* A Case has been deleted whose two documents were both on disk when it was
\* listed: the state after the deletion of the only Case, with both its
\* documents written earlier and now absent.
C16_Witness ==
    /\ cases = <<>>
    /\ case_seq >= 1
    /\ generations = 1
    /\ Len(written) = 2
    /\ \A i \in DOMAIN written : ~Exists(written[i])

(***************************************************************************)
(* The listing of cases                                                    *)
(***************************************************************************)

\* r holds each stored Case exactly once, with its template's name.
EachCaseOnce(r) ==
    /\ Len(r) = Len(cases)
    /\ \A c \in DOMAIN cases :
         \E i \in DOMAIN r :
            /\ r[i].id = cases[c].id
            /\ \A j \in DOMAIN r : r[j].id = cases[c].id => j = i
            /\ \E t \in DOMAIN templates :
                  /\ templates[t].id = cases[c].template_id
                  /\ r[i].template_name = templates[t].name

\* In r a case inserted later (the larger id) stands before one inserted
\* earlier.
NewestFirst(r) ==
    \A i, j \in DOMAIN r : r[i].id > r[j].id => i < j

\* C17: list_cases returns every stored Case exactly once, joined with the
\* name of its owning template, and ordered newest first: of any two cases
\* the one inserted later appears before the one inserted earlier.
C17_ListCasesNewestFirst ==
    \A r \in list_cases : EachCaseOnce(r) /\ NewestFirst(r)

\* Every stored Case is returned exactly once with its template's name.
ListCasesReturnsEachCaseOnce ==
    \A r \in list_cases : EachCaseOnce(r)

\* Cases inserted in different seconds are listed newest first.
NewestFirstAcrossSeconds ==
    \A r \in list_cases : \A i, j \in DOMAIN r :
        (r[i].id > r[j].id /\ r[i].created_at # r[j].created_at) => i < j

\* Two cases inserted within one second.
TwoCasesInOneSecond ==
    \E i, j \in DOMAIN cases : i # j /\ cases[i].created_at = cases[j].created_at

\* Two cases inserted in different seconds.
TwoCasesInTwoSeconds ==
    \E i, j \in DOMAIN cases : cases[i].created_at # cases[j].created_at

(***************************************************************************)
(* The shape of an inferred manifest                                       *)
(***************************************************************************)

\* The fields of a manifest: those of the top level and those nested in a
\* repeat field.
AllFields(mf) ==
    Range(mf) \cup UNION {Range(f.fields) : f \in {g \in Range(mf) :
                                                     "fields" \in DOMAIN g}}

RenderFailed == last_run.n > 0 /\ last_run.raised = "RenderError"

\* C19: if rendering the template fails, the render fails with an error and
\* no output file is left at the render's output location afterwards.
C19_FailedRenderLeavesNoFile ==
    RenderFailed =>
        /\ ~Exists(last_run.docx_path)
        /\ ~Exists(last_run.rtf_path)

\* A render that fails raises, writes no file and changes none, and no Case is
\* recorded for it.
FailedRenderWritesNothing ==
    [][(GenerateStep /\ last_run'.raised = "RenderError") =>
          /\ files' = files
          /\ written' = written
          /\ cases' = cases
          /\ last_run'.n \in failed']_vars

\* A render that fails under a stem no earlier generation has used leaves no
\* file at its output location.
FailedRenderOfFreshStemLeavesNoFile ==
    [][(/\ GenerateStep
        /\ last_run'.raised = "RenderError"
        /\ \A i \in DOMAIN written :
              written[i] \notin {last_run'.docx_path, last_run'.rtf_path}) =>
          /\ last_run'.docx_path \notin DOMAIN files'
          /\ last_run'.rtf_path \notin DOMAIN files']_vars

(***************************************************************************)
(* The fast path                                                           *)
(***************************************************************************)

\* Path(path).suffix is "." + ext; Path(path).with_suffix("") is the rest.
HasExt(path, ext) ==
    /\ Len(path) > Len(ext) + 1
    /\ SubSeq(path, Len(path) - Len(ext), Len(path)) = <<".">> \o ext
WithoutExt(path, ext) == SubSeq(path, 1, Len(path) - Len(ext) - 1)

\* The two paths differ in the extension only.
ShareOneStem(docx, rtf) ==
    /\ HasExt(docx, DocxExt)
    /\ HasExt(rtf, RtfExt)
    /\ WithoutExt(docx, DocxExt) = WithoutExt(rtf, RtfExt)

\* The template rendered, Pandoc was on PATH and ran, and its RTF has at least
\* MinPlainText characters of plain text.
FastPathConditions ==
    /\ last_run'.rendering = "ok"
    /\ last_run'.pandoc = "ok"
    /\ last_run'.text_len >= MinPlainText

\* C20: when the template renders, Pandoc is on PATH and its RTF output has at
\* least 100 characters of plain text, render_docx_rtf returns the pair
\* (filled DOCX path, RTF path) sharing one stem, both files exist, and
\* LibreOffice is not invoked.
C20_FastPathReturnsPair ==
    [][(GenerateStep /\ FastPathConditions) =>
          /\ last_run'.raised = "none"
          /\ last_gen'.docx_path = last_run'.docx_path
          /\ last_gen'.rtf_path = last_run'.rtf_path
          /\ ShareOneStem(last_run'.docx_path, last_run'.rtf_path)
          /\ last_run'.docx_path \in DOMAIN files'
          /\ last_run'.rtf_path \in DOMAIN files'
          /\ files'[last_run'.docx_path].gen = last_run'.n
          /\ files'[last_run'.rtf_path].gen = last_run'.n
          /\ last_run'.engines = <<"pandoc">>]_vars

\* C20 witness: a call without a base name has returned on the fast path; the
\* pair it returned carries the call's own uuid stem and both files are there.
C20_Witness ==
    /\ last_run.n > 0
    /\ last_run.rendering = "ok" /\ last_run.pandoc = "ok"
    /\ last_run.text_len >= MinPlainText
    /\ last_run.raised = "none"
    /\ last_run.docx_path = OutputPath(uuid4(last_run.n), DocxExt)
    /\ last_run.rtf_path = OutputPath(uuid4(last_run.n), RtfExt)
    /\ Exists(last_run.docx_path) /\ Exists(last_run.rtf_path)
    /\ last_gen # EmptyDict /\ last_gen.docx_path = last_run.docx_path

(***************************************************************************)
(* The seeding of the built-in templates                                   *)
(***************************************************************************)

\* The rows that hold the k-th built-in template: only the seeder stores a
\* document path of default_templates/.
BuiltinRows(k) == {i \in DOMAIN templates : templates[i].docx_path = BuiltinPaths[k]}

\* C21: the built-in templates are seeded only on a fresh database: once any
\* template row has been stored, no later start-up inserts them again,
\* whatever saves and archives happened in between, archiving every template
\* included.  Each built-in template is therefore stored at most once.
C21_BuiltinsSeededOnce ==
    \A k \in DOMAIN BuiltinPaths : Cardinality(BuiltinRows(k)) <= 1

\* A run of the script that finds an active template inserts nothing: rows
\* appear three at a time only when the active listing is empty.
SeedingOnlyWithoutActiveTemplates ==
    [][Len(templates') > Len(templates) + 1 => list_templates = <<>>]_vars

\* The table has rows, all archived.
EveryTemplateArchived == templates # <<>> /\ list_templates = <<>>

(***************************************************************************)
(* Save Template                                                           *)
(***************************************************************************)

\* The texts that are not valid JSON: an unclosed array, the empty text, a
\* value followed by more text, names in single quotes.
NotValidJson == {TextUnclosed, TextEmpty, TextExtraData, TextSingleQuotes}

\* The texts that are valid JSON whose "fields" entry is not a list: a number,
\* null, an object, a list overridden by a later number, no entry at all, and
\* a top-level array, which has no entries.
FieldsNotAList ==
    {TextFieldsNumber, TextFieldsNull, TextFieldsObject, TextFieldsTwice,
     TextNoFields, TextArray}

\* The step is a press of Save Template.
SaveStep == saved' # saved

\* C22: if the manifest text is not valid JSON or its "fields" entry is not a
\* list, Save Template reports the error and leaves the store unchanged: no
\* template document is written to the templates directory and no template
\* row is inserted.
C22_InvalidManifestBlocksSave ==
    [][(SaveStep /\ last_save'.manifest_text \in NotValidJson \cup FieldsNotAList) =>
          /\ last_save'.shown = "error"
          /\ tpl_files' = tpl_files
          /\ templates' = templates]_vars

\* C22 witness: Save Template was pressed with an upload and a manifest whose
\* "fields" ends up a number; the error was shown and the store is as seeded.
C22_Witness ==
    /\ saved = 1
    /\ last_save.tpl_file \in Uploads
    /\ last_save.manifest_text = TextFieldsTwice
    /\ last_save.shown = "error"
    /\ templates = SeededTemplates
    /\ tpl_files = EmptyDict

\* The other texts, with an upload, are saved.
ValidManifestIsSaved ==
    [][(/\ SaveStep
        /\ last_save'.manifest_text \notin NotValidJson \cup FieldsNotAList
        /\ last_save'.tpl_file # NoFile) =>
          /\ last_save'.shown = "success"
          /\ Len(templates') = Len(templates) + 1
          /\ TemplatePath(last_save'.tpl_file.name) \in DOMAIN tpl_files']_vars

(***************************************************************************)
(* The addresses of the form's positions                                   *)
(***************************************************************************)

\* The context the running variant has collected.
Collected == IF VariantOf(parent) = "a" THEN ctx ELSE ctx_b

AddressOf(p) == Address(VariantOf(parent), parent, p)

\* What the collected context holds at a value position, None when it holds
\* nothing there.
ReadAt(c, q) ==
    IF q.kind = "scalar"
    THEN IF q.key \in DOMAIN c THEN c[q.key] ELSE PyNone
    ELSE IF /\ q.root \in DOMAIN c
            /\ c[q.root].t = "list"
            /\ q.index + 1 <= Len(c[q.root].v)
            /\ q.key \in DOMAIN c[q.root].v[q.index + 1]
         THEN c[q.root].v[q.index + 1][q.key]
         ELSE PyNone

\* Different positions have different widget keys.
AddressesDistinct ==
    \A p, q \in Positions(schema) : p # q => AddressOf(p) # AddressOf(q)

\* A text read at a position is empty or the text typed at that position, and
\* what is stored for a count is a number.
NothingReadFromElsewhere ==
    pc = "collected_ctx" =>
        /\ \A q \in {x \in Positions(schema) : x.kind # "count"} :
              ReadAt(Collected, q).t = "str" =>
                  ReadAt(Collected, q).v \in {<<>>, Typed(q)}
        /\ \A q \in {x \in Positions(schema) : x.kind = "count"} :
              AddressOf(q) \in DOMAIN session_state =>
                  session_state[AddressOf(q)].t = "int"

\* C23: for every manifest producible by inference from tokens of the
\* placeholder grammar, distinct leaf positions of the form (distinct scalar
\* fields, distinct children of a group, distinct repetition indices) are
\* addressed by distinct store paths, so a value entered for one field is
\* never read back as the value of another field or of a repetition count.
C23_DistinctPositionsDistinctPaths ==
    AddressesDistinct /\ NothingReadFromElsewhere

\* The address of a count is the address of no value, and no value is read
\* as a count.
CountAddressesApart ==
    /\ \A p, q \in Positions(schema) :
          (p.kind = "count" /\ q.kind # "count") => AddressOf(p) # AddressOf(q)
    /\ \A q \in {x \in Positions(schema) : x.kind = "count"} :
          AddressOf(q) \in DOMAIN session_state =>
              session_state[AddressOf(q)].t = "int"

\* The positions of a manifest none of whose scalar fields is spelt with a
\* bracket have different addresses.
AddressesDistinctWithoutBrackets ==
    (\A p \in Positions(schema) : p.kind = "scalar" => "[" \notin Range(p.key))
        => AddressesDistinct

\* A text typed at one position was read at another.
ReadFromElsewhere ==
    /\ pc = "collected_ctx"
    /\ \E q \in {x \in Positions(schema) : x.kind # "count"} :
          /\ ReadAt(Collected, q).t = "str"
          /\ ReadAt(Collected, q).v \notin {<<>>, Typed(q)}

(***************************************************************************)
(* The cases a step leaves in the table                                    *)
(***************************************************************************)

\* The rows of table cases that a step keeps, as they are before the step.
KeptRows == {cases[i] : i \in {k \in DOMAIN cases :
                \E j \in DOMAIN cases' : cases'[j].id = cases[k].id}}

\* The row is in the table after the step as it was before.
RowUnchanged(row) == \E j \in DOMAIN cases' : cases'[j] = row

\* The file at path, if there is one, is there after the step with the same
\* content.
FileUnchanged(path) ==
    path \in DOMAIN files => (path \in DOMAIN files' /\ files'[path] = files[path])

DocumentsUnchanged(row) ==
    FileUnchanged(row.docx_path) /\ FileUnchanged(row.rtf_path)

\* C24: deleting one Case leaves every other Case unchanged: after any
\* sequence of generations and deletions each Case still listed has the row
\* it was created with, and its filled and converted documents still exist
\* on disk with the content written at its creation.  A Case is created with
\* both documents on disk, so this is: no step changes the row or a document
\* of a Case it keeps.
C24_OtherCasesUnchanged ==
    [][\A row \in KeptRows : RowUnchanged(row) /\ DocumentsUnchanged(row)]_vars

\* The rows alone: no step changes a row it keeps.
KeptRowsUnchanged ==
    [][\A row \in KeptRows : RowUnchanged(row)]_vars

\* The deletions alone.
DeletionKeepsOtherDocuments ==
    [][Len(cases') < Len(cases) =>
          \A row \in KeptRows : DocumentsUnchanged(row)]_vars

\* The generations alone.
GenerationKeepsOtherDocuments ==
    [][GenerateStep => \A row \in KeptRows : DocumentsUnchanged(row)]_vars

\* While no path has been written twice, the documents of kept cases are
\* unchanged.
OtherCasesUnchangedWithFreshPaths ==
    [][C14_ArtifactsWrittenOnce' =>
          \A row \in KeptRows : RowUnchanged(row) /\ DocumentsUnchanged(row)]_vars

(***************************************************************************)
(* The documents of saved templates                                        *)
(***************************************************************************)

\* The document paths of the template rows saved so far (the built-in rows
\* point into default_templates/, which no handler writes).
SavedPaths ==
    {templates[i].docx_path : i \in DOMAIN templates} \cap DOMAIN tpl_files

\* C25: saving a new template never changes the stored document of any
\* previously saved template: after any sequence of saves each template row's
\* document path still holds the bytes uploaded when that template was
\* saved, also when two uploads have the same file name.  A save stores the
\* upload's bytes at the new row's path, so this is: no step changes the
\* bytes at the path of a row already there.
C25_SavedDocumentsUnchanged ==
    [][\A path \in SavedPaths :
          path \in DOMAIN tpl_files' /\ tpl_files'[path] = tpl_files[path]]_vars

\* A save stores the upload's bytes at the new row's path.
SaveStoresUpload ==
    [][(SaveStep /\ last_save'.shown = "success") =>
          LET row == templates'[Len(templates')]
          IN  /\ row.docx_path = TemplatePath(last_save'.tpl_file.name)
              /\ tpl_files'[row.docx_path] = last_save'.tpl_file.bytes]_vars

\* A save under a file name no saved template has leaves the stored
\* documents as they are.
SaveUnderNewNameKeepsDocuments ==
    [][(SaveStep /\ TemplatePath(last_save'.tpl_file.name) \notin SavedPaths) =>
          \A path \in SavedPaths :
              path \in DOMAIN tpl_files' /\ tpl_files'[path] = tpl_files[path]]_vars

\* Two template rows have one document path.
TwoTemplatesOneDocument ==
    \E i, j \in DOMAIN templates :
        i # j /\ templates[i].docx_path = templates[j].docx_path

====
